---- MODULE Spec2Model ----
(***************************************************************************)
(* Model of the Smart Campus Assistant backend (backend/rag.py,            *)
(* backend/ingest.py): ingestion, the persisted vector index, search, the  *)
(* lazily loaded embedding model, the calls of the completion service and  *)
(* the quiz parser cascade.                                                *)
(*                                                                         *)
(* Text is modelled as a sequence of tokens; every token stands for one    *)
(* fixed string (see TokLen), so the regular expressions and the JSON      *)
(* parser of the code act on token sequences exactly as they act on the    *)
(* strings the tokens stand for.                                           *)
(***************************************************************************)
EXTENDS Integers, Sequences, FiniteSets, TLC

VARIABLES
    \* ---- generate_quiz (rag.py 242-347) ----
    q_in,             \* the call's inputs and what the completion service answers
    q_res,            \* the call's outcome: [pc, err, val, tier]
    \* ---- the storage directory and the persisted index ----
    data_dir,         \* settings.data_dir: the files, in directory order
    index_file,       \* settings.index_file: Absent or the written vector store
    metadata_file,    \* settings.metadata_file: Absent or the written JSON array
    embedding_model,  \* settings.embedding_model
    model,            \* Embedder._model: NoModel or the loaded model's name
    built,            \* build_index's locals at its last completed call
    out,              \* what the last operation did and returned
    \* ---- threads calling Embedder.get_model ----
    t_pc,             \* each thread's position in get_model
    t_ret,            \* the model instance each thread's last call returned
    constructions,    \* SentenceTransformer instances constructed so far
    \* ---- one generate_answer / summarize_document / generate_quiz call ----
    c_in,             \* the function called and its arguments
    c_pc,             \* "start", "call", "answered" or "done"
    c_calls,          \* invocations of client.chat.completions.create so far
    c_prompt,         \* the prompt built for the completion service
    c_response,       \* what the completion service answered
    c_res,            \* the call's outcome: [pc, err, val, tier]
    \* ---- a function of rag.py or ingest.py applied to given arguments ----
    fn_in,            \* the arguments
    fn_out,           \* the value returned
    \* ---- an ingest and a search running at the same time ----
    b_pc,             \* 0: no build; i: save_index is about to make its i-th write
    b_locals,         \* build_index's locals: the index and the chunks
    s_pc,             \* the search's position: "idle", "exists", ..., "done"
    s_locals          \* the search's locals: query, top_k, index, metadata

quizVars == <<q_in, q_res>>
indexVars == <<data_dir, index_file, metadata_file, embedding_model, built, out>>
threadVars == <<t_pc, t_ret, constructions>>
llmVars == <<c_in, c_pc, c_calls, c_prompt, c_response, c_res>>
pureVars == <<fn_in, fn_out>>
raceVars == <<b_pc, b_locals, s_pc, s_locals>>
vars == <<q_in, q_res, data_dir, index_file, metadata_file, embedding_model,
          model, built, out, t_pc, t_ret, constructions,
          c_in, c_pc, c_calls, c_prompt, c_response, c_res, fn_in, fn_out,
          b_pc, b_locals, s_pc, s_locals>>

-----------------------------------------------------------------------------
(* Sequence helpers *)

RECURSIVE SeqConcat(_)
SeqConcat(ss) ==
    IF ss = <<>> THEN <<>> ELSE Head(ss) \o SeqConcat(Tail(ss))

Min2(a, b) == IF a <= b THEN a ELSE b

-----------------------------------------------------------------------------
(* Response text.  Each token is one fixed string:                         *)
(*   LB {   RB }   LS [   RS ]   CM ,   NL newline                         *)
(*   KQ "questions":          KP "options":                                *)
(*   MQX "question":"q","explanation":"e"     MO "title":"t"               *)
(*   MOPT4 "A":"a","B":"b","C":"c","D":"d"    MOPT3 "A":"a","B":"b","C":"c"*)
(*   MCA "correct":"A"        MCE "correct":"E"                            *)
(*   SQ "questions" (a JSON string)           N5 5                         *)
(*   FJ ```json    F ```     TXT text    BIG 300 letters of prose          *)
(*   P200 200 letters of prose                                             *)
(*   DEEP 100000 times [ (arrays nested past the interpreter's recursion   *)
(*   limit)                                                                *)
(*   QM Question 1:    QN Q2:    NM 3.    OL A)                            *)
(* Document and query text: SP space, DOT full stop, NL newline, and the   *)
(* words alpha, beta, gamma (runs of 300, 250 and 60 letters).             *)

JsonKeyToks == {"KQ", "KP"}
JsonMemberToks == {"MQX", "MO", "MOPT4", "MOPT3", "MCA", "MCE"}
JsonScalarToks == {"SQ", "N5"}
MarkerToks == {"QM", "QN", "NM"}
Tokens ==
    {"LB", "RB", "LS", "RS", "CM", "NL", "FJ", "F", "TXT", "BIG", "P200", "OL",
     "DEEP"}
        \cup JsonKeyToks \cup JsonMemberToks \cup JsonScalarToks \cup MarkerToks

TokLen(t) ==
    CASE t \in {"LB", "RB", "LS", "RS", "CM", "NL", "N5"} -> 1
      [] t = "KQ" -> 12
      [] t = "KP" -> 10
      [] t = "MQX" -> 32
      [] t = "MO" -> 11
      [] t = "MOPT4" -> 31
      [] t = "MOPT3" -> 23
      [] t \in {"MCA", "MCE"} -> 13
      [] t = "SQ" -> 11
      [] t = "FJ" -> 7
      [] t \in {"F", "QN"} -> 3
      [] t = "TXT" -> 4
      [] t = "BIG" -> 300
      [] t = "P200" -> 200
      [] t = "DEEP" -> 100000
      [] t = "QM" -> 11
      [] t \in {"NM", "OL"} -> 2
      [] t \in {"SP", "DOT"} -> 1
      [] t = "alpha" -> 300
      [] t = "beta" -> 250
      [] t = "gamma" -> 60

RECURSIVE CharLen(_)
CharLen(s) == IF s = <<>> THEN 0 ELSE TokLen(Head(s)) + CharLen(Tail(s))

\* str.strip(): leading and trailing whitespace removed
Whitespace == {"NL", "SP"}

RECURSIVE LStrip(_)
LStrip(s) == IF s # <<>> /\ Head(s) \in Whitespace THEN LStrip(Tail(s)) ELSE s

RECURSIVE RStrip(_)
RStrip(s) ==
    IF s # <<>> /\ s[Len(s)] \in Whitespace
    THEN RStrip(SubSeq(s, 1, Len(s) - 1)) ELSE s

Strip(s) == RStrip(LStrip(s))

-----------------------------------------------------------------------------
(* JSON values, as json.loads builds them and as the code builds them.     *)
(* t: "dict" | "list" | "str" | "num" | "none"; kv: the dict's items in    *)
(* order; items: the list's elements; s: the string; src, chars, dots: a   *)
(* string cut out of the response (first `chars` characters of src, then   *)
(* "..." when dots).                                                       *)

JV(t, kv, items, s, src, chars, dots) ==
    [t |-> t, kv |-> kv, items |-> items, s |-> s,
     src |-> src, chars |-> chars, dots |-> dots]

JNone == JV("none", <<>>, <<>>, "", <<>>, 0, FALSE)
JStr(s) == JV("str", <<>>, <<>>, s, <<>>, 0, FALSE)
JNum(s) == JV("num", <<>>, <<>>, s, <<>>, 0, FALSE)
JList(items) == JV("list", <<>>, items, "", <<>>, 0, FALSE)
JDict(kv) == JV("dict", kv, <<>>, "", <<>>, 0, FALSE)
JText(src, chars, dots) == JV("str", <<>>, <<>>, "", src, chars, dots)

JKeys(v) == {v.kv[i][1] : i \in 1..Len(v.kv)}

\* dict lookup: the last item with the key (json.loads keeps the last duplicate)
JGet(v, k) ==
    LET is == {i \in 1..Len(v.kv) : v.kv[i][1] = k}
    IN v.kv[CHOOSE i \in is : \A j \in is : j <= i][2]

-----------------------------------------------------------------------------
(* json.loads on a token sequence.  Newlines between tokens are JSON       *)
(* whitespace; a token that is no JSON token is a JSONDecodeError; the     *)
(* decoder recurses once per nested array, so DEEP where a value is        *)
(* expected ends in RecursionError (which is no JSONDecodeError).          *)

KeyName(t) == IF t = "KQ" THEN "questions" ELSE "options"

MemberItems(t) ==
    CASE t = "MQX" -> << <<"question", JStr("q")>>, <<"explanation", JStr("e")>> >>
      [] t = "MO" -> << <<"title", JStr("t")>> >>
      [] t = "MOPT4" -> << <<"A", JStr("a")>>, <<"B", JStr("b")>>,
                           <<"C", JStr("c")>>, <<"D", JStr("d")>> >>
      [] t = "MOPT3" -> << <<"A", JStr("a")>>, <<"B", JStr("b")>>, <<"C", JStr("c")>> >>
      [] t = "MCA" -> << <<"correct", JStr("A")>> >>
      [] t = "MCE" -> << <<"correct", JStr("E")>> >>

ScalarValue(t) == IF t = "SQ" THEN JStr("questions") ELSE JNum("5")

ParseOk(v, next) == [ok |-> TRUE, v |-> v, next |-> next, exc |-> ""]
ParseFail == [ok |-> FALSE, v |-> JNone, next |-> 0, exc |-> "JSONDecodeError"]
ParseTooDeep == [ok |-> FALSE, v |-> JNone, next |-> 0, exc |-> "RecursionError"]

RECURSIVE ParseValue(_, _), ParseMembers(_, _, _), ParseItems(_, _, _)

\* one JSON value starting at token i
ParseValue(t, i) ==
    IF i > Len(t) THEN ParseFail
    ELSE IF t[i] = "LB" THEN
        IF i + 1 <= Len(t) /\ t[i + 1] = "RB" THEN ParseOk(JDict(<<>>), i + 2)
        ELSE ParseMembers(t, i + 1, <<>>)
    ELSE IF t[i] = "LS" THEN
        IF i + 1 <= Len(t) /\ t[i + 1] = "RS" THEN ParseOk(JList(<<>>), i + 2)
        ELSE ParseItems(t, i + 1, <<>>)
    ELSE IF t[i] \in JsonScalarToks THEN ParseOk(ScalarValue(t[i]), i + 1)
    ELSE IF t[i] = "DEEP" THEN ParseTooDeep
    ELSE ParseFail

\* the members of an object from token i on, up to and including its }
ParseMembers(t, i, acc) ==
    IF i > Len(t) THEN ParseFail
    ELSE
        LET one ==
                IF t[i] \in JsonMemberToks
                THEN [ok |-> TRUE, kv |-> acc \o MemberItems(t[i]), next |-> i + 1,
                      exc |-> ""]
                ELSE IF t[i] \in JsonKeyToks
                THEN LET r == ParseValue(t, i + 1)
                     IN [ok |-> r.ok,
                         kv |-> Append(acc, <<KeyName(t[i]), r.v>>),
                         next |-> r.next, exc |-> r.exc]
                ELSE [ok |-> FALSE, kv |-> acc, next |-> 0, exc |-> "JSONDecodeError"]
        IN IF ~one.ok THEN [ParseFail EXCEPT !.exc = one.exc]
           ELSE IF one.next > Len(t) THEN ParseFail
           ELSE IF t[one.next] = "CM" THEN ParseMembers(t, one.next + 1, one.kv)
           ELSE IF t[one.next] = "RB" THEN ParseOk(JDict(one.kv), one.next + 1)
           ELSE ParseFail

\* the elements of an array from token i on, up to and including its ]
ParseItems(t, i, acc) ==
    LET r == ParseValue(t, i)
    IN IF ~r.ok THEN r
       ELSE IF r.next > Len(t) THEN ParseFail
       ELSE IF t[r.next] = "CM" THEN ParseItems(t, r.next + 1, Append(acc, r.v))
       ELSE IF t[r.next] = "RS" THEN ParseOk(JList(Append(acc, r.v)), r.next + 1)
       ELSE ParseFail

\* json.loads(s): the whole text must be one value; ok = FALSE is the
\* exception exc ("Extra data" after the value is a JSONDecodeError)
json_loads(s) ==
    LET t == SelectSeq(s, LAMBDA x : x # "NL")
        r == ParseValue(t, 1)
    IN IF ~r.ok \/ r.next = Len(t) + 1 THEN r ELSE ParseFail

\* Python's `"questions" in x`: a key of a dict, an element of a list, a
\* substring of a string; TypeError (raises = TRUE) on a number
InQuestions(v) ==
    CASE v.t = "dict" -> [raises |-> FALSE, yes |-> "questions" \in JKeys(v)]
      [] v.t = "list" ->
            [raises |-> FALSE,
             yes |-> \E i \in 1..Len(v.items) :
                        v.items[i].t = "str" /\ v.items[i].s = "questions"]
      [] v.t = "str" -> [raises |-> FALSE, yes |-> v.s = "questions"]
      [] OTHER -> [raises |-> TRUE, yes |-> FALSE]

-----------------------------------------------------------------------------
(* The regular expressions of generate_quiz, on token sequences.           *)

Positions(s, toks) == {i \in 1..Len(s) : s[i] \in toks}
MinOf(S) == CHOOSE x \in S : \A y \in S : x <= y
MaxOf(S) == CHOOSE x \in S : \A y \in S : y <= x

\* the search taking everything from the first { to the end of the text
JsonMatch_to_end(text) ==
    LET lb == Positions(text, {"LB"})
    IN IF lb # {}
       THEN [found |-> TRUE, group |-> SubSeq(text, MinOf(lb), Len(text))]
       ELSE [found |-> FALSE, group |-> <<>>]

\* re.search(r'\{[\s\S]*\}', text): greedy, from the first { to the last }
JsonMatch(text) ==
    LET lb == Positions(text, {"LB"})
        rb == Positions(text, {"RB"})
    IN IF lb # {} /\ rb # {} /\ MinOf(lb) < MaxOf(rb)
       THEN [found |-> TRUE, group |-> SubSeq(text, MinOf(lb), MaxOf(rb))]
       ELSE [found |-> FALSE, group |-> <<>>]

\* re.sub(fence + r'\s*', '', text): every fence token and the whitespace after it
RECURSIVE ReSubFence(_, _)
ReSubFence(text, fence) ==
    IF text = <<>> THEN <<>>
    ELSE IF Head(text) = fence THEN ReSubFence(LStrip(Tail(text)), fence)
    ELSE <<Head(text)>> \o ReSubFence(Tail(text), fence)

\* cleaned = re.sub(r'```json\s*', '', response_text); re.sub(r'```\s*', '', cleaned)
Cleaned(text) == ReSubFence(ReSubFence(text, "FJ"), "F")

\* A marker (Question N, QN anywhere; N. or N) at the start of a line) at s
IsMarkerAt(text, s) ==
    \/ text[s] \in {"QM", "QN"}
    \/ text[s] = "NM" /\ (s = 1 \/ text[s - 1] = "NL")

\* the lookahead (?=\n(?:Question|Q\d+|\d+[.)]|$)) at position p
LookaheadAt(text, p) ==
    /\ p <= Len(text)
    /\ text[p] = "NL"
    /\ \/ p = Len(text)
       \/ text[p + 1] \in MarkerToks \cup {"NL"}

\* One match of question_pattern with its marker at s: the \s* after the
\* marker is greedy (the latest group start g that still matches), group 1
\* (.+?) is lazy and DOTALL (the earliest end e, at least one token).
QuestionMatchAt(text, s) ==
    LET starts == {g \in (s + 1)..Len(text) :
                      /\ \A i \in (s + 1)..(g - 1) : text[i] = "NL"
                      /\ \E e \in g..Len(text) : LookaheadAt(text, e + 1)}
    IN IF ~IsMarkerAt(text, s) \/ starts = {}
       THEN [found |-> FALSE, g |-> 0, e |-> 0]
       ELSE LET g == MaxOf(starts)
                e == MinOf({x \in g..Len(text) : LookaheadAt(text, x + 1)})
            IN [found |-> TRUE, g |-> g, e |-> e]

\* re.finditer(question_pattern, text): leftmost matches, not overlapping
RECURSIVE QuestionMatches(_, _)
QuestionMatches(text, pos) ==
    LET ss == {s \in pos..Len(text) : QuestionMatchAt(text, s).found}
    IN IF ss = {} THEN <<>>
       ELSE LET m == QuestionMatchAt(text, MinOf(ss))
            IN <<SubSeq(text, m.g, m.e)>> \o QuestionMatches(text, m.e + 1)

\* re.search(r'([A-D])[:.)]\s*(.+?)(?=\n[A-D][:.)]|$)', question_text, re.MULTILINE):
\* an option label followed, after optional whitespace, by one more character
OptionsMatch(question_text) ==
    \E i \in 1..Len(question_text) :
        /\ question_text[i] = "OL"
        /\ \E j \in (i + 1)..Len(question_text) : question_text[j] # "NL"

\* question_text.split('\n')[0]
FirstLine(question_text) ==
    LET nl == Positions(question_text, {"NL"})
    IN IF nl = {} THEN question_text ELSE SubSeq(question_text, 1, MinOf(nl) - 1)

-----------------------------------------------------------------------------
(* generate_quiz (rag.py 242-347)                                          *)

ExplanationLimit == 500

PlaceholderOptions ==
    JDict(<< <<"A", JStr("Option A")>>, <<"B", JStr("Option B")>>,
             <<"C", JStr("Option C")>>, <<"D", JStr("Option D")>> >>)

\* the question appended for one match of the text fallback (rag.py 324-329)
PatternQuestion(question_text) ==
    JDict(<< <<"question", JText(FirstLine(question_text),
                                 CharLen(FirstLine(question_text)), FALSE)>>,
             <<"options", PlaceholderOptions>>,
             <<"correct", JStr("A")>>,
             <<"explanation", JStr("See source material for details.")>> >>)

\* rag.py 315-329: the questions parsed from text format
RECURSIVE PatternQuestions(_)
PatternQuestions(matches) ==
    IF matches = <<>> THEN <<>>
    ELSE LET question_text == Strip(Head(matches))
         IN (IF OptionsMatch(question_text)
             THEN <<PatternQuestion(question_text)>> ELSE <<>>)
            \o PatternQuestions(Tail(matches))

\* list(matches)[:num_questions]
Prefix(xs, n) ==
    IF n >= 0 THEN SubSeq(xs, 1, Min2(n, Len(xs)))
    ELSE SubSeq(xs, 1, IF Len(xs) + n > 0 THEN Len(xs) + n ELSE 0)

\* the single synthetic question with the cut made at 500 characters for
\* every response that reaches that length
FallbackQuiz_cut_at_limit(response_text) ==
    JDict(<< <<"questions", JList(<<
        JDict(<< <<"question", JStr("Quiz generated from your documents. Please review the content below.")>>,
                 <<"options", JDict(<< <<"A", JStr("Review the source materials")>>,
                                       <<"B", JStr("Check the uploaded documents")>>,
                                       <<"C", JStr("Refer to course notes")>>,
                                       <<"D", JStr("Consult with instructor")>> >>)>>,
                 <<"correct", JStr("A")>>,
                 <<"explanation",
                   JText(response_text,
                         Min2(ExplanationLimit, CharLen(response_text)),
                         CharLen(response_text) >= ExplanationLimit)>> >>)
        >>)>> >>)

\* rag.py 335-347: the single synthetic question
FallbackQuiz(response_text) ==
    JDict(<< <<"questions", JList(<<
        JDict(<< <<"question", JStr("Quiz generated from your documents. Please review the content below.")>>,
                 <<"options", JDict(<< <<"A", JStr("Review the source materials")>>,
                                       <<"B", JStr("Check the uploaded documents")>>,
                                       <<"C", JStr("Refer to course notes")>>,
                                       <<"D", JStr("Consult with instructor")>> >>)>>,
                 <<"correct", JStr("A")>>,
                 <<"explanation",
                   JText(response_text,
                         Min2(ExplanationLimit, CharLen(response_text)),
                         CharLen(response_text) > ExplanationLimit)>> >>)
        >>)>> >>)

Returned(v, tier) == [pc |-> "returned", err |-> "", val |-> v, tier |-> tier]
Raised(e) == [pc |-> "raised", err |-> e, val |-> JNone, tier |-> 0]

\* rag.py 303-312: the inner try of the JSONDecodeError handler; its bare
\* except swallows whatever json.loads or the `in` test raises ("pass")
CleanedJson(response_text) ==
    LET r == json_loads(Cleaned(response_text))
    IN IF r.ok /\ ~InQuestions(r.v).raises /\ InQuestions(r.v).yes
       THEN Returned(r.v, 2)
       ELSE [pc |-> "pass", err |-> "", val |-> JNone, tier |-> 0]

\* rag.py 314-347: text-format fallback, then the final fallback
TextFallback(response_text, num_questions) ==
    LET questions ==
            PatternQuestions(Prefix(QuestionMatches(response_text, 1), num_questions))
    IN IF questions # <<>>
       THEN Returned(JDict(<< <<"questions", JList(questions)>> >>), 3)
       ELSE Returned(FallbackQuiz(response_text), 4)

\* rag.py 292-347: the parser cascade on the completion's text
ParseQuiz(content, num_questions) ==
    LET response_text == Strip(content)
        json_match == JsonMatch(response_text)
        direct == json_loads(json_match.group)
    IN IF json_match.found /\ direct.ok /\ InQuestions(direct.v).yes
       THEN Returned(direct.v, 1)
       ELSE IF json_match.found /\ ~direct.ok /\ direct.exc # "JSONDecodeError"
       THEN Raised(direct.exc)
       ELSE IF json_match.found /\ ~direct.ok
                 /\ CleanedJson(response_text).pc # "pass"
       THEN CleanedJson(response_text)
       ELSE TextFallback(response_text, num_questions)

\* in: [api_key, contexts, service, content, num_questions]
generate_quiz(in) ==
    IF ~in.api_key THEN Raised("ValueError: GROQ_API_KEY is not set")
    ELSE IF ~in.contexts THEN Raised("ValueError: Contexts cannot be empty")
    ELSE IF in.service = "error" THEN Raised("ValueError: Groq API call failed")
    ELSE IF in.service = "no_choices" \/ in.content = <<>>
    THEN Raised("ValueError: Empty response from Groq API")
    ELSE ParseQuiz(in.content, in.num_questions)

-----------------------------------------------------------------------------
(* The completions the service may return: up to MaxSegments pieces, each  *)
(* a JSON quiz, a fragment of one, a fence, prose or a question line.      *)

MaxSegments == 3

GoodQuiz ==
    <<"LB", "KQ", "LS", "LB", "MQX", "CM", "KP", "LB", "MOPT4", "RB", "CM",
      "MCA", "RB", "RS", "RB">>
BadQuiz ==
    <<"LB", "KQ", "LS", "LB", "MQX", "CM", "KP", "LB", "MOPT3", "RB", "CM",
      "MCE", "RB", "RS", "RB">>
\* a quiz object holding two questions
TwoQuiz ==
    <<"LB", "KQ", "LS", "LB", "MQX", "RB", "CM", "LB", "MQX", "RB", "RS", "RB">>

Segments ==
    { GoodQuiz, BadQuiz, TwoQuiz,
      <<"KQ", "LS", "RS", "RB">>, <<"LB">>, <<"RB">>,
      <<"FJ", "NL">>, <<"NL", "F">>, <<"TXT">>, <<"NL">>, <<"BIG", "BIG">>,
      <<"BIG", "P200">>,
      <<"QM", "TXT", "NL", "OL", "TXT", "NL">>,
      <<"QN", "TXT", "NL">>, <<"NM", "TXT", "NL">>,
      <<"LS", "SQ", "CM", "LB", "MO", "RB", "CM">>, <<"LB", "MO", "RB", "RS">>,
      <<"KQ", "DEEP">>, <<"LS", "SQ", "RS">> }

RECURSIVE ResponsesOf(_)
ResponsesOf(n) ==
    IF n = 0 THEN {<<>>}
    ELSE ResponsesOf(n - 1)
            \cup {r \o g : r \in ResponsesOf(n - 1), g \in Segments}

Responses == ResponsesOf(MaxSegments)

NumQuestionsValues == {1, 2}

-----------------------------------------------------------------------------
(* RecursiveCharacterTextSplitter(chunk_size, chunk_overlap, separators),  *)
(* as chunk_documents configures it (ingest.py 62-66).                     *)

chunk_size == 500
chunk_overlap == 80

\* the separator list with the sentence break tried before the single newline
Separators_sentence_first ==
    << <<"NL", "NL">>, <<"DOT", "SP">>, <<"NL">>, <<"SP">> >>

\* separators=["\n\n", "\n", ". ", " "] (ingest.py 65)
Separators == << <<"NL", "NL">>, <<"NL">>, <<"DOT", "SP">>, <<"SP">> >>

\* whether sep occurs in text at position i
OccursAt(text, sep, i) ==
    /\ i + Len(sep) - 1 <= Len(text)
    /\ SubSeq(text, i, i + Len(sep) - 1) = sep

Contains(text, sep) == \E i \in 1..Len(text) : OccursAt(text, sep, i)

\* re.split("(sep)", text) with every separator kept at the start of the
\* piece that follows it; `cur` is the piece being collected
RECURSIVE SplitKeep(_, _, _)
SplitKeep(text, sep, cur) ==
    IF text = <<>> THEN <<cur>>
    ELSE IF OccursAt(text, sep, 1)
    THEN <<cur>> \o SplitKeep(SubSeq(text, Len(sep) + 1, Len(text)), sep, sep)
    ELSE SplitKeep(Tail(text), sep, Append(cur, Head(text)))

SplitWithRegex(text, sep) ==
    SelectSeq(SplitKeep(text, sep, <<>>), LAMBDA x : x # <<>>)

\* _join_docs: the pieces joined and stripped; <<>> stands for None
JoinDocs(docs) == Strip(SeqConcat(docs))

RECURSIVE SumLen(_)
SumLen(docs) == IF docs = <<>> THEN 0 ELSE CharLen(Head(docs)) + SumLen(Tail(docs))

\* the while loop of _merge_splits: drop pieces from the front of the
\* current chunk until the overlap fits and the next piece fits
RECURSIVE DropFront(_, _)
DropFront(current, len) ==
    IF SumLen(current) > chunk_overlap
         \/ (SumLen(current) + len > chunk_size /\ SumLen(current) > 0)
    THEN DropFront(Tail(current), len)
    ELSE current

\* _merge_splits(splits, ""): pieces merged into chunks of at most
\* chunk_size characters, consecutive chunks sharing up to chunk_overlap
RECURSIVE MergeSplits(_, _)
MergeSplits(splits, current) ==
    IF splits = <<>>
    THEN IF JoinDocs(current) = <<>> THEN <<>> ELSE <<JoinDocs(current)>>
    ELSE LET d == Head(splits)
             full == SumLen(current) + CharLen(d) > chunk_size /\ current # <<>>
             doc == IF full /\ JoinDocs(current) # <<>>
                    THEN <<JoinDocs(current)>> ELSE <<>>
             kept == IF full THEN DropFront(current, CharLen(d)) ELSE current
         IN doc \o MergeSplits(Tail(splits), Append(kept, d))

\* the first separator of the list that occurs in the text, else the last
PickSeparator(text, separators) ==
    LET found == {i \in 1..Len(separators) : Contains(text, separators[i])}
    IN IF found = {} THEN Len(separators) ELSE MinOf(found)

RECURSIVE SplitText(_, _), SplitPieces(_, _, _)

\* _split_text(text, separators)
SplitText(text, separators) ==
    LET i == PickSeparator(text, separators)
        rest == IF Contains(text, separators[i])
                THEN SubSeq(separators, i + 1, Len(separators)) ELSE <<>>
    IN SplitPieces(SplitWithRegex(text, separators[i]), rest, <<>>)

\* the loop of _split_text over the pieces; good = the short pieces waiting
\* to be merged
SplitPieces(splits, new_separators, good) ==
    IF splits = <<>>
    THEN IF good = <<>> THEN <<>> ELSE MergeSplits(good, <<>>)
    ELSE LET piece == Head(splits)
         IN IF CharLen(piece) < chunk_size
            THEN SplitPieces(Tail(splits), new_separators, Append(good, piece))
            ELSE (IF good = <<>> THEN <<>> ELSE MergeSplits(good, <<>>))
                 \o (IF new_separators = <<>> THEN <<piece>>
                     ELSE SplitText(piece, new_separators))
                 \o SplitPieces(Tail(splits), new_separators, <<>>)

\* the separators left for the pieces of a _split_text call: those after
\* the one picked, none when no separator of the list occurs in the text
NewSeparators(text, separators) ==
    LET i == PickSeparator(text, separators)
    IN IF Contains(text, separators[i])
       THEN SubSeq(separators, i + 1, Len(separators)) ELSE <<>>

split_text(text) == SplitText(text, Separators)

-----------------------------------------------------------------------------
(* Embedder (rag.py 17-79).  The sentence-transformers models are external: *)
(* a model is a fixed map from a text to a vector of its dimension, every   *)
(* vector of norm 5 (normalize_embeddings=True), so an inner product is 25  *)
(* times the cosine similarity.                                             *)

\* Embedder._model: None, or the instance loaded (its model name, and which
\* construction of the process it is)
NoModel == [name |-> "None", id |-> 0]
Instance(name, id) == [name |-> name, id |-> id]

EmbeddingModels == {"nomic-embed-text", "all-mpnet-base-v2", "no-such-model"}

\* rag.py 37-45: the name handed to SentenceTransformer
ModelName(configured) ==
    IF configured = "nomic-embed-text" THEN "all-MiniLM-L6-v2" ELSE configured

\* SentenceTransformer(name) raises for a name that is no model
Loadable(name) == name \in {"all-MiniLM-L6-v2", "all-mpnet-base-v2"}

ModelVectors(name) ==
    IF name = "all-MiniLM-L6-v2"
    THEN << <<5, 0>>, <<4, 3>>, <<3, 4>>, <<0, 5>> >>
    ELSE << <<5, 0, 0>>, <<4, 3, 0>>, <<0, 4, 3>>, <<0, 0, 5>> >>

WordWeight(t) ==
    CASE t = "alpha" -> 1 [] t = "beta" -> 2 [] t = "gamma" -> 4 [] OTHER -> 0

RECURSIVE TextWeight(_)
TextWeight(text) ==
    IF text = <<>> THEN 0 ELSE WordWeight(Head(text)) + TextWeight(Tail(text))

\* model.encode(texts, normalize_embeddings=True): one row per text, in order
ModelEncode(name, texts) ==
    [i \in 1..Len(texts) |-> ModelVectors(name)[(TextWeight(texts[i]) % 4) + 1]]

\* Embedder.get_model (rag.py 34-47) run to completion by one caller:
\* the cached model, or the configured one loaded and cached
get_model(cached, configured) ==
    IF cached # NoModel THEN [ok |-> TRUE, model |-> cached]
    ELSE IF Loadable(ModelName(configured))
    THEN [ok |-> TRUE, model |-> Instance(ModelName(configured), 1)]
    ELSE [ok |-> FALSE, model |-> NoModel]

IsBlank(text) == Strip(text) = <<>>

\* Embedder.encode (rag.py 49-79); use_groq() is False
encode(cached, configured, texts) ==
    IF texts = <<>> \/ \A i \in 1..Len(texts) : IsBlank(texts[i])
    THEN [ok |-> FALSE, err |-> "ValueError: Cannot encode empty texts",
          model |-> cached, embeddings |-> <<>>]
    ELSE LET m == get_model(cached, configured)
         IN IF m.ok
            THEN [ok |-> TRUE, err |-> "", model |-> m.model,
                  embeddings |-> ModelEncode(m.model.name, texts)]
            ELSE [ok |-> FALSE, err |-> "ValueError: Local embedding model error",
                  model |-> cached, embeddings |-> <<>>]

-----------------------------------------------------------------------------
(* The FAISS index and the two persisted artifacts (rag.py 84-108).         *)

\* faiss.IndexFlatIP(dim) after add(embeddings)
IndexFlatIP(dim, embeddings) == [d |-> dim, rows |-> embeddings]
EmptyIndex == IndexFlatIP(0, <<>>)
Ntotal(index) == Len(index.rows)

AbsentIndexFile == [exists |-> FALSE, d |-> 0, ntotal |-> 0, xb |-> <<>>]
AbsentMetadataFile == [exists |-> FALSE, items |-> <<>>]

\* faiss.write_index: the header and the vectors as one flat array
write_index(index) ==
    [exists |-> TRUE, d |-> index.d, ntotal |-> Ntotal(index),
     xb |-> SeqConcat(index.rows)]

\* read_index taking the flat array for column-major
read_index_column_major(file) ==
    [d |-> file.d,
     rows |-> [i \in 1..file.ntotal |->
                  [j \in 1..file.d |-> file.xb[(j - 1) * file.ntotal + i]]]]

\* faiss.read_index: the flat array cut into ntotal vectors of d components
read_index(file) ==
    [d |-> file.d,
     rows |-> [i \in 1..file.ntotal |->
                  SubSeq(file.xb, (i - 1) * file.d + 1, i * file.d)]]

\* json.dump(metadata): a JSON array of objects, members in insertion order
json_dump(metadata) ==
    [exists |-> TRUE,
     items |-> [i \in 1..Len(metadata) |->
                  << <<"id", metadata[i].id>>, <<"text", metadata[i].text>>,
                     <<"source", metadata[i].source>> >>]]

Member(object, key) ==
    object[CHOOSE i \in 1..Len(object) : object[i][1] = key][2]

\* json.load: each object becomes a dict
json_load(file) ==
    [i \in 1..Len(file.items) |->
        [id |-> Member(file.items[i], "id"),
         text |-> Member(file.items[i], "text"),
         source |-> Member(file.items[i], "source")]]

\* load_index requiring the vector store only, a missing metadata file read
\* as the empty list
load_index_lenient(idx_file, meta_file) ==
    IF ~idx_file.exists
    THEN [ok |-> FALSE, index |-> EmptyIndex, metadata |-> <<>>]
    ELSE [ok |-> TRUE, index |-> read_index(idx_file),
          metadata |-> json_load(meta_file)]

\* load_index (rag.py 84-90)
load_index(idx_file, meta_file) ==
    IF ~idx_file.exists \/ ~meta_file.exists
    THEN [ok |-> FALSE, index |-> EmptyIndex, metadata |-> <<>>]
    ELSE [ok |-> TRUE, index |-> read_index(idx_file),
          metadata |-> json_load(meta_file)]

\* save_index (rag.py 93-97): what the two files hold afterwards
save_index(index, metadata) ==
    [index_file |-> write_index(index), metadata_file |-> json_dump(metadata)]

\* build_index adding the embeddings to the index last text first
build_index_reordered(cached, configured, chunks) ==
    LET texts == [i \in 1..Len(chunks) |-> chunks[Len(chunks) + 1 - i].text]
        e == encode(cached, configured, texts)
        index == IndexFlatIP(Len(e.embeddings[1]), e.embeddings)
    IN IF ~e.ok
       THEN [ok |-> FALSE, err |-> e.err, model |-> e.model,
             index |-> EmptyIndex, chunks |-> <<>>,
             saved |-> save_index(EmptyIndex, <<>>)]
       ELSE [ok |-> TRUE, err |-> "", model |-> e.model,
             index |-> index, chunks |-> chunks,
             saved |-> save_index(index, chunks)]

\* build_index (rag.py 100-108): embed the chunk texts, index them, save
build_index(cached, configured, chunks) ==
    LET texts == [i \in 1..Len(chunks) |-> chunks[i].text]
        e == encode(cached, configured, texts)
        index == IndexFlatIP(Len(e.embeddings[1]), e.embeddings)
    IN IF ~e.ok
       THEN [ok |-> FALSE, err |-> e.err, model |-> e.model,
             index |-> EmptyIndex, chunks |-> <<>>,
             saved |-> save_index(EmptyIndex, <<>>)]
       ELSE [ok |-> TRUE, err |-> "", model |-> e.model,
             index |-> index, chunks |-> chunks,
             saved |-> save_index(index, chunks)]

-----------------------------------------------------------------------------
(* search (rag.py 111-141)                                                  *)

RECURSIVE Dot(_, _)
Dot(a, b) ==
    IF a = <<>> \/ b = <<>> THEN 0
    ELSE Head(a) * Head(b) + Dot(Tail(a), Tail(b))

\* whether offset i ranks before offset j: higher inner product first, the
\* earlier inserted vector first among equals
RanksBefore(index, q, i, j) ==
    \/ Dot(index.rows[i + 1], q) > Dot(index.rows[j + 1], q)
    \/ Dot(index.rows[i + 1], q) = Dot(index.rows[j + 1], q) /\ i < j

\* the offset with exactly r offsets ranked before it
OffsetOfRank(index, q, r) ==
    CHOOSE i \in 0..(Ntotal(index) - 1) :
        Cardinality({j \in 0..(Ntotal(index) - 1) : RanksBefore(index, q, j, i)}) = r

\* index.search(query_vec, k): k (score, offset) pairs, best first, offset -1
\* where the index holds fewer than k vectors; raises on k <= 0 or a query of
\* another dimension
faiss_search(index, q, k) ==
    IF k <= 0 \/ Len(q) # index.d
    THEN [ok |-> FALSE, hits |-> <<>>]
    ELSE [ok |-> TRUE,
          hits |-> [r \in 1..k |->
                      IF r <= Ntotal(index)
                      THEN LET i == OffsetOfRank(index, q, r - 1)
                           IN [score |-> Dot(index.rows[i + 1], q), idx |-> i]
                      ELSE [score |-> -1, idx |-> -1]]]

\* the join ending at the first offset outside the metadata list
RECURSIVE JoinResults_stop(_, _)
JoinResults_stop(hits, metadata) ==
    IF hits = <<>> THEN <<>>
    ELSE LET h == Head(hits)
         IN IF h.idx < 0 \/ h.idx >= Len(metadata) THEN <<>>
            ELSE << [id |-> metadata[h.idx + 1].id,
                     text |-> metadata[h.idx + 1].text,
                     source |-> metadata[h.idx + 1].source,
                     score |-> h.score] >>
                 \o JoinResults_stop(Tail(hits), metadata)

\* the join dropping offset 0 along with the negative offsets
RECURSIVE JoinResults_drop_zero(_, _)
JoinResults_drop_zero(hits, metadata) ==
    IF hits = <<>> THEN <<>>
    ELSE LET h == Head(hits)
         IN (IF h.idx <= 0 \/ h.idx >= Len(metadata) THEN <<>>
             ELSE << [id |-> metadata[h.idx + 1].id,
                      text |-> metadata[h.idx + 1].text,
                      source |-> metadata[h.idx + 1].source,
                      score |-> h.score] >>)
            \o JoinResults_drop_zero(Tail(hits), metadata)

\* rag.py 133-139: the hits joined with the metadata by offset
RECURSIVE JoinResults(_, _)
JoinResults(hits, metadata) ==
    IF hits = <<>> THEN <<>>
    ELSE LET h == Head(hits)
         IN (IF h.idx < 0 \/ h.idx >= Len(metadata) THEN <<>>
             ELSE << [id |-> metadata[h.idx + 1].id,
                      text |-> metadata[h.idx + 1].text,
                      source |-> metadata[h.idx + 1].source,
                      score |-> h.score] >>)
            \o JoinResults(Tail(hits), metadata)

SearchOutcome(err, model_, hits, results, lookup) ==
    [err |-> err, model |-> model_, hits |-> hits, results |-> results,
     lookup |-> lookup]

\* search without the comparison of the query's dimension with the index's
search_unchecked(idx_file, meta_file, cached, configured, query, top_k) ==
    LET loaded == load_index(idx_file, meta_file)
        e == encode(cached, configured, <<query>>)
        query_vec == e.embeddings[1]
        found == faiss_search(loaded.index, query_vec,
                              Min2(top_k, Ntotal(loaded.index)))
    IN IF query = <<>> \/ IsBlank(query)
       THEN SearchOutcome("ValueError: Query cannot be empty", cached, <<>>, <<>>, FALSE)
       ELSE IF ~loaded.ok
       THEN SearchOutcome("FileNotFoundError: Failed to load index", cached,
                          <<>>, <<>>, FALSE)
       ELSE IF ~e.ok
       THEN SearchOutcome("ValueError: Failed to encode query", e.model,
                          <<>>, <<>>, FALSE)
       ELSE IF ~found.ok
       THEN SearchOutcome("ValueError: FAISS search failed", e.model,
                          <<>>, <<>>, TRUE)
       ELSE SearchOutcome("", e.model, found.hits,
                          JoinResults(found.hits, loaded.metadata), TRUE)

\* search loading the index before it looks at the query
search_load_first(idx_file, meta_file, cached, configured, query, top_k) ==
    LET loaded == load_index(idx_file, meta_file)
        e == encode(cached, configured, <<query>>)
        query_vec == e.embeddings[1]
        found == faiss_search(loaded.index, query_vec,
                              Min2(top_k, Ntotal(loaded.index)))
    IN IF ~loaded.ok
       THEN SearchOutcome("FileNotFoundError: Failed to load index", cached,
                          <<>>, <<>>, FALSE)
       ELSE IF query = <<>> \/ IsBlank(query)
       THEN SearchOutcome("ValueError: Query cannot be empty", cached, <<>>, <<>>, FALSE)
       ELSE IF ~e.ok
       THEN SearchOutcome("ValueError: Failed to encode query", e.model,
                          <<>>, <<>>, FALSE)
       ELSE IF Len(query_vec) # loaded.index.d
       THEN SearchOutcome("ValueError: Embedding dimension mismatch", e.model,
                          <<>>, <<>>, FALSE)
       ELSE IF ~found.ok
       THEN SearchOutcome("ValueError: FAISS search failed", e.model,
                          <<>>, <<>>, TRUE)
       ELSE SearchOutcome("", e.model, found.hits,
                          JoinResults(found.hits, loaded.metadata), TRUE)

\* search(query, top_k), given the files and the Embedder's state; lookup
\* tells whether index.search was called
search(idx_file, meta_file, cached, configured, query, top_k) ==
    LET loaded == load_index(idx_file, meta_file)
        e == encode(cached, configured, <<query>>)
        query_vec == e.embeddings[1]
        found == faiss_search(loaded.index, query_vec,
                              Min2(top_k, Ntotal(loaded.index)))
    IN IF query = <<>> \/ IsBlank(query)
       THEN SearchOutcome("ValueError: Query cannot be empty", cached, <<>>, <<>>, FALSE)
       ELSE IF ~loaded.ok
       THEN SearchOutcome("FileNotFoundError: Failed to load index", cached,
                          <<>>, <<>>, FALSE)
       ELSE IF ~e.ok
       THEN SearchOutcome("ValueError: Failed to encode query", e.model,
                          <<>>, <<>>, FALSE)
       ELSE IF Len(query_vec) # loaded.index.d
       THEN SearchOutcome("ValueError: Embedding dimension mismatch", e.model,
                          <<>>, <<>>, FALSE)
       ELSE IF ~found.ok
       THEN SearchOutcome("ValueError: FAISS search failed", e.model,
                          <<>>, <<>>, TRUE)
       ELSE SearchOutcome("", e.model, found.hits,
                          JoinResults(found.hits, loaded.metadata), TRUE)

-----------------------------------------------------------------------------
(* ingest (ingest.py 15-91)                                                 *)

\* a file of the storage directory: its path, its name (the last path
\* component), its suffix, whether its extractor raises on it, and the text
\* extraction yields
File(path, name, suffix, corrupt, text) ==
    [path |-> path, name |-> name, suffix |-> suffix, corrupt |-> corrupt,
     text |-> text]

Supported == {".txt", ".md", ".pdf", ".docx", ".doc", ".pptx", ".ppt"}

\* the error the file's extractor raises, "" when it returns the text
\* (ingest.py 15-43; read_text(errors="ignore") does not raise on content)
ExtractError(file) ==
    IF ~file.corrupt \/ file.suffix \in {".txt", ".md"} THEN ""
    ELSE IF file.suffix = ".pdf" THEN "PdfReadError"
    ELSE IF file.suffix \in {".docx", ".doc"} THEN "ValueError: Error reading DOCX file"
    ELSE "ValueError: Error reading PPTX file"

\* list(iter_documents(data_dir)) (ingest.py 46-58): the (name, text) pairs
\* of the supported files in directory order; the first extractor that
\* raises ends the iteration with its error
RECURSIVE iter_documents(_)
iter_documents(files) ==
    IF files = <<>> THEN [err |-> "", docs |-> <<>>]
    ELSE LET f == Head(files)
             rest == iter_documents(Tail(files))
         IN IF f.suffix \notin Supported THEN rest
            ELSE IF ExtractError(f) # "" THEN [err |-> ExtractError(f), docs |-> <<>>]
            ELSE IF rest.err # "" THEN rest
            ELSE [err |-> "", docs |-> <<[source |-> f.name, text |-> f.text]>> \o rest.docs]

\* the chunks of one document, the ordinal counted from 1
DocChunks_from_one(source, text) ==
    LET pieces == split_text(text)
    IN [i \in 1..Len(pieces) |->
          [id |-> <<source, i>>, text |-> Strip(pieces[i]), source |-> source]]

\* the chunks of one document (ingest.py 71-78)
DocChunks(source, text) ==
    LET pieces == split_text(text)
    IN [i \in 1..Len(pieces) |->
          [id |-> <<source, i - 1>>, text |-> Strip(pieces[i]), source |-> source]]

\* chunk_documents (ingest.py 61-79)
RECURSIVE chunk_documents(_)
chunk_documents(docs) ==
    IF docs = <<>> THEN <<>>
    ELSE (IF IsBlank(Head(docs).text) THEN <<>>
          ELSE DocChunks(Head(docs).source, Head(docs).text))
         \o chunk_documents(Tail(docs))

IngestOutcome(err, built_) == [err |-> err, build |-> built_]
NoBuild ==
    [ok |-> FALSE, err |-> "", model |-> NoModel, index |-> EmptyIndex,
     chunks |-> <<>>, saved |-> save_index(EmptyIndex, <<>>)]

\* ingest(data_dir) (ingest.py 82-91); build.ok tells whether build_index
\* ran to its end
ingest(dir_exists, files, cached, configured) ==
    LET it == iter_documents(files)
        b == build_index(cached, configured, chunk_documents(it.docs))
    IN IF ~dir_exists
       THEN IngestOutcome("FileNotFoundError: Data directory not found",
                          [NoBuild EXCEPT !.model = cached])
       ELSE IF it.err # ""
       THEN IngestOutcome(it.err, [NoBuild EXCEPT !.model = cached])
       ELSE IF it.docs = <<>>
       THEN IngestOutcome("RuntimeError: No documents found to ingest.",
                          [NoBuild EXCEPT !.model = cached])
       ELSE IngestOutcome(b.err, b)

-----------------------------------------------------------------------------
(* The index lifecycle: the storage directory changes, ingests, searches,   *)
(* artifacts deleted, the process restarted under another configuration.    *)
(* Every operation runs to its end before the next starts.                  *)

MaxFiles == 2

Notes == <<"alpha", "NL", "NL", "beta", "DOT", "SP", "gamma">>
Week1 == <<"gamma", "SP", "gamma">>

\* the files that may be in the storage directory, in the order in which
\* the directory lists them (glob order is the file system's, not upload order)
FileOrder ==
    << File("notes.txt", "notes.txt", ".txt", FALSE, Notes),
       File("week1/notes.txt", "notes.txt", ".txt", FALSE, Week1),
       File("blank.md", "blank.md", ".md", FALSE, <<"SP", "NL">>),
       File("slides.pptx", "slides.pptx", ".pptx", TRUE, <<>>),
       File("logo.png", "logo.png", ".png", FALSE, <<>>) >>

FileRank(path) == CHOOSE i \in 1..Len(FileOrder) : FileOrder[i].path = path

\* the directory listing with file f added
Listing(files, f) ==
    SelectSeq(files, LAMBDA g : FileRank(g.path) < FileRank(f.path))
        \o <<f>>
        \o SelectSeq(files, LAMBDA g : FileRank(g.path) > FileRank(f.path))

Queries == { <<>>, <<"SP">>, <<"gamma", "SP", "beta">> }
TopKValues == {0, 1, 4}

Out(op, err, query, top_k, hits, results, lookup) ==
    [op |-> op, err |-> err, query |-> query, top_k |-> top_k, hits |-> hits,
     results |-> results, lookup |-> lookup]
OutOf(op, err) == Out(op, err, <<>>, 0, <<>>, <<>>, FALSE)

\* replaced: whether the build overwrote a metadata list holding a chunk that
\* the build's own chunks do not include
NothingBuilt ==
    [chunks |-> <<>>, index |-> EmptyIndex, model |-> "None", replaced |-> FALSE]

QuizIdle ==
    /\ q_in = [api_key |-> FALSE, contexts |-> FALSE, service |-> "error",
               content |-> <<>>, num_questions |-> 0]
    /\ q_res = [pc |-> "start", err |-> "", val |-> JNone, tier |-> 0]

ThreadsIdle ==
    /\ t_pc = <<>>
    /\ t_ret = <<>>
    /\ constructions = 0

NoPrompt == [kind |-> "none", context_block |-> <<>>, question |-> <<>>]
NoResponse == [kind |-> "none", content |-> <<>>]
Pending == [pc |-> "pending", err |-> "", val |-> JNone, tier |-> 0]

\* no completion call is under way
LLMIdle ==
    /\ c_in = [fn |-> "none", api_key |-> FALSE, client_ok |-> FALSE,
               question |-> <<>>, contexts |-> <<>>, num_questions |-> 0]
    /\ c_pc = "done"
    /\ c_calls = 0
    /\ c_prompt = NoPrompt
    /\ c_response = NoResponse
    /\ c_res = Pending

PureIdle ==
    /\ fn_in = [hits |-> <<>>, metadata |-> <<>>]
    /\ fn_out = [done |-> FALSE, results |-> <<>>, metadata |-> <<>>]

NoBuildLocals == [index |-> EmptyIndex, chunks |-> <<>>]
NoSearchLocals ==
    [query |-> <<>>, top_k |-> 0, index |-> EmptyIndex, metadata |-> <<>>]

\* no ingest and no search is under way
RaceIdle ==
    /\ b_pc = 0
    /\ b_locals = NoBuildLocals
    /\ s_pc = "idle"
    /\ s_locals = NoSearchLocals

\* a fresh process on an empty storage directory, nothing ingested yet
IndexFresh ==
    /\ data_dir = <<>>
    /\ index_file = AbsentIndexFile
    /\ metadata_file = AbsentMetadataFile
    /\ embedding_model \in EmbeddingModels
    /\ model = NoModel
    /\ built = NothingBuilt
    /\ out = OutOf("start", "")

Init ==
    /\ IndexFresh
    /\ QuizIdle
    /\ ThreadsIdle
    /\ LLMIdle
    /\ RaceIdle
    /\ PureIdle

\* a file is written into the storage directory (api.py 108-134, or by hand)
upload_file(f) ==
    /\ Len(data_dir) < MaxFiles
    /\ \A i \in 1..Len(data_dir) : data_dir[i].path # f.path
    /\ data_dir' = Listing(data_dir, f)
    /\ out' = OutOf("files", "")
    /\ UNCHANGED <<index_file, metadata_file, embedding_model, model, built>>
    /\ UNCHANGED <<quizVars, threadVars, llmVars, pureVars, raceVars>>

\* a file is removed from the storage directory
remove_file(i) ==
    /\ data_dir' = SubSeq(data_dir, 1, i - 1) \o SubSeq(data_dir, i + 1, Len(data_dir))
    /\ out' = OutOf("files", "")
    /\ UNCHANGED <<index_file, metadata_file, embedding_model, model, built>>
    /\ UNCHANGED <<quizVars, threadVars, llmVars, pureVars, raceVars>>

\* ingest adding the new vectors and chunks to the persisted ones
Ingest_incremental(dir_exists) ==
    LET r == ingest(dir_exists, data_dir, model, embedding_model)
        old == load_index(index_file, metadata_file)
        saved == save_index(
                    IndexFlatIP(r.build.index.d, old.index.rows \o r.build.index.rows),
                    old.metadata \o r.build.chunks)
    IN /\ model' = r.build.model
       /\ index_file' = IF r.build.ok THEN saved.index_file ELSE index_file
       /\ metadata_file' = IF r.build.ok THEN saved.metadata_file ELSE metadata_file
       /\ built' = IF r.build.ok
                   THEN [chunks |-> r.build.chunks, index |-> r.build.index,
                         model |-> r.build.model.name,
                         replaced |->
                            /\ metadata_file.exists
                            /\ \E i \in 1..Len(metadata_file.items) :
                                  \A j \in 1..Len(r.build.chunks) :
                                     json_load(metadata_file)[i] # r.build.chunks[j]]
                   ELSE built
       /\ out' = OutOf("ingest", r.err)
       /\ UNCHANGED <<data_dir, embedding_model>>
       /\ UNCHANGED <<quizVars, threadVars, llmVars, pureVars, raceVars>>

\* ingest removing the persisted artifacts before it looks for documents
Ingest_clearing(dir_exists) ==
    LET r == ingest(dir_exists, data_dir, model, embedding_model)
    IN /\ model' = r.build.model
       /\ index_file' =
             IF r.build.ok THEN r.build.saved.index_file ELSE AbsentIndexFile
       /\ metadata_file' =
             IF r.build.ok THEN r.build.saved.metadata_file ELSE AbsentMetadataFile
       /\ built' = IF r.build.ok
                   THEN [chunks |-> r.build.chunks, index |-> r.build.index,
                         model |-> r.build.model.name,
                         replaced |->
                            /\ metadata_file.exists
                            /\ \E i \in 1..Len(metadata_file.items) :
                                  \A j \in 1..Len(r.build.chunks) :
                                     json_load(metadata_file)[i] # r.build.chunks[j]]
                   ELSE built
       /\ out' = OutOf("ingest", r.err)
       /\ UNCHANGED <<data_dir, embedding_model>>
       /\ UNCHANGED <<quizVars, threadVars, llmVars, pureVars, raceVars>>

\* ingest(data_dir) called on the storage directory or on a missing one
Ingest(dir_exists) ==
    LET r == ingest(dir_exists, data_dir, model, embedding_model)
    IN /\ model' = r.build.model
       /\ index_file' = IF r.build.ok THEN r.build.saved.index_file ELSE index_file
       /\ metadata_file' =
             IF r.build.ok THEN r.build.saved.metadata_file ELSE metadata_file
       /\ built' = IF r.build.ok
                   THEN [chunks |-> r.build.chunks, index |-> r.build.index,
                         model |-> r.build.model.name,
                         replaced |->
                            /\ metadata_file.exists
                            /\ \E i \in 1..Len(metadata_file.items) :
                                  \A j \in 1..Len(r.build.chunks) :
                                     json_load(metadata_file)[i] # r.build.chunks[j]]
                   ELSE built
       /\ out' = OutOf("ingest", r.err)
       /\ UNCHANGED <<data_dir, embedding_model>>
       /\ UNCHANGED <<quizVars, threadVars, llmVars, pureVars, raceVars>>

\* search(query, top_k)
Search(query, top_k) ==
    LET r == search(index_file, metadata_file, model, embedding_model, query, top_k)
    IN /\ model' = r.model
       /\ out' = Out("search", r.err, query, top_k, r.hits, r.results, r.lookup)
       /\ UNCHANGED <<data_dir, index_file, metadata_file, embedding_model, built>>
       /\ UNCHANGED <<quizVars, threadVars, llmVars, pureVars, raceVars>>

\* one of the two artifacts is deleted from the embeddings directory
DeleteIndexFile ==
    /\ index_file.exists
    /\ index_file' = AbsentIndexFile
    /\ out' = OutOf("delete", "")
    /\ UNCHANGED <<data_dir, metadata_file, embedding_model, model, built>>
    /\ UNCHANGED <<quizVars, threadVars, llmVars, pureVars, raceVars>>

DeleteMetadataFile ==
    /\ metadata_file.exists
    /\ metadata_file' = AbsentMetadataFile
    /\ out' = OutOf("delete", "")
    /\ UNCHANGED <<data_dir, index_file, embedding_model, model, built>>
    /\ UNCHANGED <<quizVars, threadVars, llmVars, pureVars, raceVars>>

\* the process is restarted with EMBEDDING_MODEL set to m (config.py 6):
\* the class attribute Embedder._model starts as None again (rag.py 18)
Restart(m) ==
    /\ embedding_model' = m
    /\ model' = NoModel
    /\ out' = OutOf("restart", "")
    /\ UNCHANGED <<data_dir, index_file, metadata_file, built>>
    /\ UNCHANGED <<quizVars, threadVars, llmVars, pureVars, raceVars>>

Next ==
    \/ \E i \in 1..Len(FileOrder) : upload_file(FileOrder[i])
    \/ \E i \in 1..Len(data_dir) : remove_file(i)
    \/ \E d \in BOOLEAN : Ingest(d)
    \/ \E q \in Queries, k \in TopKValues : Search(q, k)
    \/ DeleteIndexFile
    \/ DeleteMetadataFile
    \/ \E m \in EmbeddingModels : Restart(m)

Spec == Init /\ [][Next]_vars

-----------------------------------------------------------------------------
(* generate_quiz applied to every completion of Responses.                  *)

QuizInputs ==
    { [api_key |-> TRUE, contexts |-> TRUE, service |-> "content",
       content |-> c, num_questions |-> n] :
         c \in Responses, n \in NumQuestionsValues }
    \cup
    { [api_key |-> k, contexts |-> x, service |-> v, content |-> <<>>,
       num_questions |-> 1] :
         k \in BOOLEAN, x \in BOOLEAN, v \in {"error", "no_choices", "content"} }

InitQuiz ==
    /\ q_in \in QuizInputs
    /\ q_res = [pc |-> "start", err |-> "", val |-> JNone, tier |-> 0]
    /\ IndexFresh
    /\ embedding_model = "nomic-embed-text"
    /\ ThreadsIdle
    /\ LLMIdle
    /\ RaceIdle
    /\ PureIdle

GenerateQuiz ==
    /\ q_res.pc = "start"
    /\ q_res' = generate_quiz(q_in)
    /\ UNCHANGED <<q_in, indexVars, model, threadVars, llmVars, pureVars, raceVars>>

NextQuiz == GenerateQuiz

SpecQuiz == InitQuiz /\ [][NextQuiz]_vars

-----------------------------------------------------------------------------
(* Threads of the server's pool (api.py runs each endpoint on a worker      *)
(* thread) calling Embedder.get_model, one statement at a time.             *)

NumThreads == 2
Threads == 1..NumThreads

InitThreads ==
    /\ t_pc = [t \in Threads |-> "idle"]
    /\ t_ret = [t \in Threads |-> 0]
    /\ constructions = 0
    /\ IndexFresh
    /\ QuizIdle
    /\ LLMIdle
    /\ RaceIdle
    /\ PureIdle

\* a request reaches Embedder.encode, which calls get_model (rag.py 75)
CallGetModel(t) ==
    /\ t_pc[t] = "idle"
    /\ t_pc' = [t_pc EXCEPT ![t] = "check"]
    /\ UNCHANGED <<t_ret, constructions, model, quizVars, indexVars, llmVars, pureVars, raceVars>>

\* rag.py 36: if cls._model is None
CheckModel(t) ==
    /\ t_pc[t] = "check"
    /\ t_pc' = [t_pc EXCEPT ![t] = IF model = NoModel THEN "construct" ELSE "return"]
    /\ UNCHANGED <<t_ret, constructions, model, quizVars, indexVars, llmVars, pureVars, raceVars>>

\* rag.py 37-46, right-hand side: SentenceTransformer(model_name) builds a
\* new instance (or raises, and encode turns that into its ValueError)
ConstructModel(t) ==
    /\ t_pc[t] = "construct"
    /\ IF Loadable(ModelName(embedding_model))
       THEN /\ constructions' = constructions + 1
            /\ t_ret' = [t_ret EXCEPT ![t] = constructions + 1]
            /\ t_pc' = [t_pc EXCEPT ![t] = "assign"]
       ELSE /\ t_pc' = [t_pc EXCEPT ![t] = "idle"]
            /\ t_ret' = [t_ret EXCEPT ![t] = 0]
            /\ UNCHANGED constructions
    /\ UNCHANGED <<model, quizVars, indexVars, llmVars, pureVars, raceVars>>

\* rag.py 46, the assignment: cls._model = <the instance just built>
AssignModel(t) ==
    /\ t_pc[t] = "assign"
    /\ model' = Instance(ModelName(embedding_model), t_ret[t])
    /\ t_pc' = [t_pc EXCEPT ![t] = "return"]
    /\ UNCHANGED <<t_ret, constructions, quizVars, indexVars, llmVars, pureVars, raceVars>>

\* rag.py 47: return cls._model
ReturnModel(t) ==
    /\ t_pc[t] = "return"
    /\ t_ret' = [t_ret EXCEPT ![t] = model.id]
    /\ t_pc' = [t_pc EXCEPT ![t] = "idle"]
    /\ UNCHANGED <<constructions, model, quizVars, indexVars, llmVars, pureVars, raceVars>>

NextThreads ==
    \E t \in Threads :
        \/ CallGetModel(t)
        \/ CheckModel(t)
        \/ ConstructModel(t)
        \/ AssignModel(t)
        \/ ReturnModel(t)

SpecThreads == InitThreads /\ [][NextThreads]_vars

-----------------------------------------------------------------------------
(* generate_answer, summarize_document and generate_quiz (rag.py 162-347),  *)
(* one call from its argument checks to its return, the completion service  *)
(* answering in between.  A prompt is its list of context entries, each     *)
(* [source_tag, text] (source_tag "" where the text is embedded bare), and  *)
(* the question.                                                            *)

MaxContexts == 2

\* chunks as search returns them
ContextPool ==
    { [text |-> <<"alpha">>, source |-> "notes.txt", score |-> 25],
      [text |-> <<"beta", "DOT", "SP", "gamma">>, source |-> "notes.txt", score |-> 24],
      [text |-> <<"gamma", "SP", "gamma">>, source |-> "week1.md", score |-> 15] }

RECURSIVE ContextsOf(_)
ContextsOf(n) ==
    IF n = 0 THEN {<<>>}
    ELSE ContextsOf(n - 1)
            \cup {Append(cs, c) : cs \in {x \in ContextsOf(n - 1) : Len(x) = n - 1},
                                  c \in ContextPool}

Questions == { <<>>, <<"SP">>, <<"TXT">> }

\* what the completion service may answer: kind "error" (the call raises),
\* "no_choices" (response.choices is empty) or "content" with the text
Completions ==
    { <<>>, <<"SP">>, <<"NL", "SP">>, <<"TXT">>, <<"SP", "TXT", "NL">>, GoodQuiz,
      <<"QM", "TXT", "NL", "OL", "TXT", "NL">> }
ServiceAnswers ==
    { [kind |-> "error", content |-> <<>>], [kind |-> "no_choices", content |-> <<>>] }
        \cup { [kind |-> "content", content |-> c] : c \in Completions }

\* build_prompt (rag.py 147-156): "[Source: <source>] <text>" per context,
\* in the order of the list
build_prompt(question, contexts) ==
    [kind |-> "answer",
     context_block |-> [i \in 1..Len(contexts) |->
                          [source_tag |-> contexts[i].source, text |-> contexts[i].text]],
     question |-> question]

\* rag.py 209-217 and 251-271: full_text joins the texts alone
FullTextPrompt(kind, contexts) ==
    [kind |-> kind,
     context_block |-> [i \in 1..Len(contexts) |->
                          [source_tag |-> "", text |-> contexts[i].text]],
     question |-> <<>>]

\* the checks before the service is called (rag.py 163-175, 202-206,
\* 244-248): the error raised, "" when there is none
ArgumentError(in) ==
    IF ~in.api_key THEN "ValueError: GROQ_API_KEY is not set"
    ELSE IF in.fn = "generate_answer" /\ IsBlank(in.question)
    THEN "ValueError: Question cannot be empty"
    ELSE IF in.contexts = <<>> THEN "ValueError: Contexts cannot be empty"
    ELSE IF in.fn = "generate_answer" /\ ~in.client_ok
    THEN "ValueError: Failed to initialize Groq client"
    ELSE ""

PromptOf(in) ==
    CASE in.fn = "generate_answer" -> build_prompt(in.question, in.contexts)
      [] in.fn = "summarize_document" -> FullTextPrompt("summary", in.contexts)
      [] OTHER -> FullTextPrompt("quiz", in.contexts)

\* the position after the call when a failed call is made again
AfterCall_retry(kind) == IF kind = "error" THEN "call" ELSE "answered"

\* the position after client.chat.completions.create: its exception is
\* turned into ValueError at once (rag.py 188-189, 230-231, 283-284)
AfterCall(kind) == IF kind = "error" THEN "done" ELSE "answered"

\* rag.py 191-194 and 233-236: the stripped text, or the error raised
TextResult(response) ==
    IF response.kind = "no_choices" \/ response.content = <<>>
    THEN Raised("ValueError: Empty response from Groq API")
    ELSE Returned(JText(Strip(response.content),
                        CharLen(Strip(response.content)), FALSE), 0)

\* what the call makes of the service's answer
ResultOf(in, response) ==
    IF in.fn = "generate_quiz"
    THEN generate_quiz([api_key |-> TRUE, contexts |-> TRUE,
                        service |-> response.kind, content |-> response.content,
                        num_questions |-> in.num_questions])
    ELSE TextResult(response)

LLMCalls ==
    { [fn |-> "generate_answer", api_key |-> k, client_ok |-> c, question |-> q,
       contexts |-> cs, num_questions |-> 0] :
         k \in BOOLEAN, c \in BOOLEAN, q \in Questions, cs \in ContextsOf(MaxContexts) }
    \cup
    { [fn |-> f, api_key |-> k, client_ok |-> c, question |-> <<>>,
       contexts |-> cs, num_questions |-> IF f = "generate_quiz" THEN 1 ELSE 0] :
         f \in {"summarize_document", "generate_quiz"},
         k \in BOOLEAN, c \in BOOLEAN, cs \in ContextsOf(MaxContexts) }

InitLLM ==
    /\ c_in \in LLMCalls
    /\ c_pc = "start"
    /\ c_calls = 0
    /\ c_prompt = NoPrompt
    /\ c_response = NoResponse
    /\ c_res = Pending
    /\ IndexFresh
    /\ embedding_model = "nomic-embed-text"
    /\ QuizIdle
    /\ ThreadsIdle
    /\ PureIdle
    /\ RaceIdle

\* the argument checks and the prompt
CheckArguments ==
    /\ c_pc = "start"
    /\ IF ArgumentError(c_in) # ""
       THEN /\ c_res' = Raised(ArgumentError(c_in))
            /\ c_pc' = "done"
            /\ UNCHANGED c_prompt
       ELSE /\ c_prompt' = PromptOf(c_in)
            /\ c_pc' = "call"
            /\ UNCHANGED c_res
    /\ UNCHANGED <<c_in, c_calls, c_response>>
    /\ UNCHANGED <<quizVars, indexVars, model, threadVars, pureVars, raceVars>>

\* Groq(api_key=...) and client.chat.completions.create(...): in
\* summarize_document and generate_quiz the client is made inside the try
CallService(answer) ==
    /\ c_pc = "call"
    /\ IF ~c_in.client_ok
       THEN /\ c_res' = Raised("ValueError: Groq API call failed")
            /\ c_pc' = "done"
            /\ UNCHANGED <<c_calls, c_response>>
       ELSE /\ c_calls' = c_calls + 1
            /\ c_response' = answer
            /\ c_pc' = AfterCall(answer.kind)
            /\ c_res' = IF answer.kind = "error"
                        THEN Raised("ValueError: Groq API call failed")
                        ELSE c_res
    /\ UNCHANGED <<c_in, c_prompt>>
    /\ UNCHANGED <<quizVars, indexVars, model, threadVars, pureVars, raceVars>>

\* the rest of the function, on the service's answer
FinishCall ==
    /\ c_pc = "answered"
    /\ c_res' = ResultOf(c_in, c_response)
    /\ c_pc' = "done"
    /\ UNCHANGED <<c_in, c_calls, c_prompt, c_response>>
    /\ UNCHANGED <<quizVars, indexVars, model, threadVars, pureVars, raceVars>>

NextLLM ==
    \/ CheckArguments
    \/ \E a \in ServiceAnswers : CallService(a)
    \/ FinishCall

SpecLLM == InitLLM /\ [][NextLLM]_vars

-----------------------------------------------------------------------------
(* The join of search (rag.py 133-139) applied to what index.search may     *)
(* hand back for a metadata list of any length: offsets inside the list,    *)
(* offsets past its end (an index with more vectors than the list has       *)
(* entries) and the offset -1 FAISS uses for "no result".                   *)

MaxHits == 3

Offsets == -1..2

\* hit lists of n (score, offset) pairs, best score first
RECURSIVE HitsOf(_)
HitsOf(n) ==
    IF n = 0 THEN {<<>>}
    ELSE HitsOf(n - 1)
            \cup {Append(hs, [score |-> 25 - Len(hs), idx |-> i]) :
                     hs \in {x \in HitsOf(n - 1) : Len(x) = n - 1}, i \in Offsets}

\* the metadata list of one build, whole or cut short
MetadataLists ==
    LET whole == chunk_documents(<<[source |-> "notes.txt", text |-> Notes]>>)
    IN {SubSeq(whole, 1, n) : n \in 0..Len(whole)}

InitJoin ==
    /\ fn_in \in {[hits |-> hs, metadata |-> md] :
                     hs \in HitsOf(MaxHits), md \in MetadataLists}
    /\ fn_out = [done |-> FALSE, results |-> <<>>, metadata |-> <<>>]
    /\ IndexFresh
    /\ embedding_model = "nomic-embed-text"
    /\ QuizIdle
    /\ ThreadsIdle
    /\ LLMIdle
    /\ RaceIdle

\* the loop of rag.py 133-139, and the metadata list as it is afterwards
Join ==
    /\ ~fn_out.done
    /\ fn_out' = [done |-> TRUE,
                  results |-> JoinResults(fn_in.hits, fn_in.metadata),
                  metadata |-> fn_in.metadata]
    /\ UNCHANGED fn_in
    /\ UNCHANGED <<quizVars, indexVars, model, threadVars, llmVars, raceVars>>

NextJoin == Join

SpecJoin == InitJoin /\ [][NextJoin]_vars

-----------------------------------------------------------------------------
(* The splitter of chunk_documents applied to a document text, one call of  *)
(* its recursive _split_text at a time: the call on the whole text, then    *)
(* the calls it makes on the pieces that are not shorter than chunk_size.   *)

MaxParts == 5

\* what a document text is made of: words of 300 and 250 letters, paragraph
\* breaks, single newlines, sentence breaks and spaces
TextParts ==
    { <<"alpha">>, <<"beta">>, <<"NL", "NL">>, <<"NL">>, <<"DOT", "SP">>, <<"SP">> }

RECURSIVE TextsOf(_)
TextsOf(n) ==
    IF n = 0 THEN {<<>>}
    ELSE TextsOf(n - 1) \cup {t \o p : t \in TextsOf(n - 1), p \in TextParts}

\* chunk_documents skips a blank text (ingest.py 69-70)
DocumentTexts == {t \in TextsOf(MaxParts) : ~IsBlank(t)}

NotSplit ==
    [done |-> FALSE, separator |-> <<>>, new_separators |-> <<>>,
     splits |-> <<>>, chunks |-> <<>>]

InitSplit ==
    /\ fn_in \in {[text |-> t, separators |-> Separators] : t \in DocumentTexts}
    /\ fn_out = NotSplit
    /\ IndexFresh
    /\ embedding_model = "nomic-embed-text"
    /\ QuizIdle
    /\ ThreadsIdle
    /\ LLMIdle
    /\ RaceIdle

\* one call _split_text(text, separators): the separator it picks, the
\* pieces it cuts the text into, and the chunks it returns
SplitCall ==
    /\ ~fn_out.done
    /\ fn_out' =
          [done |-> TRUE,
           separator |-> fn_in.separators[PickSeparator(fn_in.text, fn_in.separators)],
           new_separators |-> NewSeparators(fn_in.text, fn_in.separators),
           splits |-> SplitWithRegex(
                         fn_in.text,
                         fn_in.separators[PickSeparator(fn_in.text, fn_in.separators)]),
           chunks |-> SplitText(fn_in.text, fn_in.separators)]
    /\ UNCHANGED fn_in
    /\ UNCHANGED <<quizVars, indexVars, model, threadVars, llmVars, raceVars>>

\* the call made on piece i, which is not shorter than chunk_size, with the
\* separators that are left
SplitPiece(i) ==
    /\ fn_out.done
    /\ CharLen(fn_out.splits[i]) >= chunk_size
    /\ fn_out.new_separators # <<>>
    /\ fn_in' = [text |-> fn_out.splits[i], separators |-> fn_out.new_separators]
    /\ fn_out' = NotSplit
    /\ UNCHANGED <<quizVars, indexVars, model, threadVars, llmVars, raceVars>>

NextSplit ==
    \/ SplitCall
    \/ \E i \in 1..Len(fn_out.splits) : SplitPiece(i)

SpecSplit == InitSplit /\ [][NextSplit]_vars

-----------------------------------------------------------------------------
(* An ingest and a search on two worker threads (api.py 64-67, 77-83: both  *)
(* endpoints are plain functions, which the server runs on its thread       *)
(* pool).  The steps are the file operations of save_index and load_index;  *)
(* each file is written and read in one step.                               *)

\* the storage directory as ingest may find it
RaceListings ==
    { <<FileOrder[1]>>, <<FileOrder[2]>>, <<FileOrder[1], FileOrder[2]>> }

\* the artifact save_index writes with the opposite order of the two writes
SaveOrder_metadata_first == <<"metadata", "index">>

\* save_index (rag.py 93-97): faiss.write_index, then json.dump
SaveOrder == <<"index", "metadata">>

\* search from rag.py 120 on, given what load_index returned
search_loaded(index, metadata, cached, configured, query, top_k) ==
    LET e == encode(cached, configured, <<query>>)
        query_vec == e.embeddings[1]
        found == faiss_search(index, query_vec, Min2(top_k, Ntotal(index)))
    IN IF ~e.ok
       THEN SearchOutcome("ValueError: Failed to encode query", e.model,
                          <<>>, <<>>, FALSE)
       ELSE IF Len(query_vec) # index.d
       THEN SearchOutcome("ValueError: Embedding dimension mismatch", e.model,
                          <<>>, <<>>, FALSE)
       ELSE IF ~found.ok
       THEN SearchOutcome("ValueError: FAISS search failed", e.model,
                          <<>>, <<>>, TRUE)
       ELSE SearchOutcome("", e.model, found.hits,
                          JoinResults(found.hits, metadata), TRUE)

InitRace ==
    /\ IndexFresh
    /\ embedding_model = "nomic-embed-text"
    /\ QuizIdle
    /\ ThreadsIdle
    /\ LLMIdle
    /\ RaceIdle
    /\ PureIdle

\* ingest() up to the call of save_index (ingest.py 82-90, rag.py 100-107)
\* on a storage directory holding `files`
StartIngest(files) ==
    LET r == ingest(TRUE, files, model, embedding_model)
    IN /\ b_pc = 0
       /\ r.build.ok
       /\ b_locals' = [index |-> r.build.index, chunks |-> r.build.chunks]
       /\ b_pc' = 1
       /\ model' = r.build.model
       /\ UNCHANGED <<data_dir, index_file, metadata_file, embedding_model,
                      built, out, s_pc, s_locals>>
       /\ UNCHANGED <<quizVars, threadVars, llmVars, pureVars>>

\* one of the two writes of save_index (rag.py 95, 96-97)
WriteArtifact ==
    /\ b_pc \in {1, 2}
    /\ IF SaveOrder[b_pc] = "index"
       THEN /\ index_file' = write_index(b_locals.index)
            /\ UNCHANGED metadata_file
       ELSE /\ metadata_file' = json_dump(b_locals.chunks)
            /\ UNCHANGED index_file
    /\ b_pc' = IF b_pc = 1 THEN 2 ELSE 0
    /\ b_locals' = IF b_pc = 1 THEN b_locals ELSE NoBuildLocals
    /\ UNCHANGED <<data_dir, embedding_model, model, built, out, s_pc, s_locals>>
    /\ UNCHANGED <<quizVars, threadVars, llmVars, pureVars>>

\* search(query, top_k) is called: the test of the query (rag.py 112-113)
StartSearch(query, top_k) ==
    /\ s_pc \in {"idle", "done"}
    /\ s_locals' = [NoSearchLocals EXCEPT !.query = query, !.top_k = top_k]
    /\ IF query = <<>> \/ IsBlank(query)
       THEN /\ s_pc' = "done"
            /\ out' = Out("search", "ValueError: Query cannot be empty", query,
                          top_k, <<>>, <<>>, FALSE)
       ELSE /\ s_pc' = "exists"
            /\ UNCHANGED out
    /\ UNCHANGED <<data_dir, index_file, metadata_file, embedding_model, model,
                   built, b_pc, b_locals>>
    /\ UNCHANGED <<quizVars, threadVars, llmVars, pureVars>>

\* load_index: the test that both files exist (rag.py 85-86)
CheckExists ==
    /\ s_pc = "exists"
    /\ IF ~index_file.exists \/ ~metadata_file.exists
       THEN /\ s_pc' = "done"
            /\ out' = Out("search", "FileNotFoundError: Failed to load index",
                          s_locals.query, s_locals.top_k, <<>>, <<>>, FALSE)
       ELSE /\ s_pc' = "read_index"
            /\ UNCHANGED out
    /\ UNCHANGED <<data_dir, index_file, metadata_file, embedding_model, model,
                   built, b_pc, b_locals, s_locals>>
    /\ UNCHANGED <<quizVars, threadVars, llmVars, pureVars>>

\* load_index: faiss.read_index (rag.py 87)
ReadIndex ==
    /\ s_pc = "read_index"
    /\ s_locals' = [s_locals EXCEPT !.index = read_index(index_file)]
    /\ s_pc' = "read_metadata"
    /\ UNCHANGED <<data_dir, index_file, metadata_file, embedding_model, model,
                   built, out, b_pc, b_locals>>
    /\ UNCHANGED <<quizVars, threadVars, llmVars, pureVars>>

\* load_index: json.load of the metadata file (rag.py 88-90)
ReadMetadata ==
    /\ s_pc = "read_metadata"
    /\ s_locals' = [s_locals EXCEPT !.metadata = json_load(metadata_file)]
    /\ s_pc' = "loaded"
    /\ UNCHANGED <<data_dir, index_file, metadata_file, embedding_model, model,
                   built, out, b_pc, b_locals>>
    /\ UNCHANGED <<quizVars, threadVars, llmVars, pureVars>>

\* the rest of search on the pair it loaded (rag.py 120-141)
FinishSearch ==
    LET r == search_loaded(s_locals.index, s_locals.metadata, model,
                           embedding_model, s_locals.query, s_locals.top_k)
    IN /\ s_pc = "loaded"
       /\ s_pc' = "done"
       /\ model' = r.model
       /\ out' = Out("search", r.err, s_locals.query, s_locals.top_k, r.hits,
                     r.results, r.lookup)
       /\ UNCHANGED <<data_dir, index_file, metadata_file, embedding_model,
                      built, b_pc, b_locals, s_locals>>
       /\ UNCHANGED <<quizVars, threadVars, llmVars, pureVars>>

NextRace ==
    \/ \E files \in RaceListings : StartIngest(files)
    \/ WriteArtifact
    \/ \E q \in Queries, k \in TopKValues : StartSearch(q, k)
    \/ CheckExists
    \/ ReadIndex
    \/ ReadMetadata
    \/ FinishSearch

SpecRace == InitRace /\ [][NextRace]_vars

-----------------------------------------------------------------------------
(* Properties of generate_quiz (checked under SpecQuiz).                    *)

\* the QuizQuestion invariant: options has exactly the labels A, B, C, D and
\* correct is one of them
IsQuizQuestion(q) ==
    /\ q.t = "dict"
    /\ {"options", "correct"} \subseteq JKeys(q)
    /\ JGet(q, "options").t = "dict"
    /\ JKeys(JGet(q, "options")) = {"A", "B", "C", "D"}
    /\ JGet(q, "correct").t = "str"
    /\ JGet(q, "correct").s \in {"A", "B", "C", "D"}

\* a Quiz with at least one question, every question a QuizQuestion
IsQuiz(v) ==
    /\ v.t = "dict"
    /\ "questions" \in JKeys(v)
    /\ JGet(v, "questions").t = "list"
    /\ Len(JGet(v, "questions").items) >= 1
    /\ \A i \in 1..Len(JGet(v, "questions").items) :
          IsQuizQuestion(JGet(v, "questions").items[i])

\* the call reached the completion service and the service answered with text
\* (the empty string included)
ServiceAnswered ==
    /\ q_in.api_key
    /\ q_in.contexts
    /\ q_in.service = "content"
    /\ q_res.pc # "start"

\* C1: for any completion-service output (the empty string, prose and
\* malformed JSON included), generate_quiz called with non-empty contexts and
\* a configured API key returns a Quiz with at least one question, each with
\* options labelled exactly A, B, C, D and a correct label among them.
C1_AlwaysAValidQuiz ==
    ServiceAnswered => (q_res.pc = "returned" /\ IsQuiz(q_res.val))

\* C2: once the completion service has returned non-empty text,
\* generate_quiz never raises: every parse failure of the cascade falls
\* through to a later tier and a value is returned.
C2_NeverRaisesOnText ==
    (ServiceAnswered /\ q_in.content # <<>>) => q_res.pc = "returned"

-----------------------------------------------------------------------------
(* Properties of Embedder.get_model under concurrent callers (checked       *)
(* under SpecThreads).                                                      *)

\* C4: the embedding model is constructed exactly once per process even
\* when several threads make their first get_model call concurrently: no
\* interleaving leads to two SentenceTransformer constructions, and every
\* call that returns hands out the one cached instance.
C4_ConstructedOnce ==
    /\ constructions <= 1
    /\ \A t \in Threads :
          (t_pc[t] = "idle" /\ t_ret[t] # 0) => t_ret[t] = model.id

-----------------------------------------------------------------------------
(* Properties of the index lifecycle (checked under Spec).                  *)

MissingIndexError == "FileNotFoundError: Failed to load index"
DimensionMismatchError == "ValueError: Embedding dimension mismatch"

ArtifactMissing == ~index_file.exists \/ ~metadata_file.exists
SearchDone == out.op = "search"
SearchReturned == out.op = "search" /\ out.err = ""
BuildCompleted == out.op = "ingest" /\ out.err = ""

\* the embedding the latest build inserted for its i-th chunk
BuiltEmbedding(i) == ModelEncode(built.model, <<built.chunks[i].text>>)[1]

\* the search just made embedded its query, with the model now cached
QueryEmbedded == SearchDone /\ ~IsBlank(out.query) /\ model # NoModel
QueryDim == Len(ModelVectors(model.name)[1])

\* C3: metadata alignment.  After any sequence of completed builds the
\* persisted vector store and metadata list have the same length and the
\* same insertion order as the latest build, and for every offset i a search
\* returns, metadata[i] exists and the result carries the source and text of
\* the chunk whose embedding the latest build inserted at position i.
C3_MetadataAlignment ==
    LET p == load_index(index_file, metadata_file)
    IN /\ p.ok =>
            /\ Ntotal(p.index) = Len(p.metadata)
            /\ Len(p.metadata) = Len(built.chunks)
            /\ \A i \in 1..Len(p.metadata) :
                  /\ p.metadata[i].source = built.chunks[i].source
                  /\ p.metadata[i].text = built.chunks[i].text
                  /\ p.index.rows[i] = BuiltEmbedding(i)
       /\ SearchReturned =>
            /\ Len(out.results) = Len(out.hits)
            /\ \A j \in 1..Len(out.hits) :
                  /\ out.hits[j].idx \in 0..(Len(p.metadata) - 1)
                  /\ out.results[j].source = built.chunks[out.hits[j].idx + 1].source
                  /\ out.results[j].text = built.chunks[out.hits[j].idx + 1].text
                  /\ out.results[j].score =
                        Dot(BuiltEmbedding(out.hits[j].idx + 1),
                            ModelEncode(model.name, <<out.query>>)[1])

\* a search after a second build returned several chunks, the best one not
\* the first inserted
C3_Witness ==
    /\ SearchReturned
    /\ built.replaced
    /\ Len(out.results) >= 2
    /\ out.hits[1].idx # 0

\* C5: a failure to extract one file does not abort a bulk ingest: when one
\* document raises during extraction and at least one other document yields
\* text, ingest still builds and persists an index from the documents that
\* did extract (the directory exists and the embedding model loads).
C5_ExtractionFailureNotFatal ==
    ( /\ out.op = "ingest"
      /\ out.err # "FileNotFoundError: Data directory not found"
      /\ Loadable(ModelName(embedding_model))
      /\ \E i \in 1..Len(data_dir) :
            data_dir[i].suffix \in Supported /\ ExtractError(data_dir[i]) # ""
      /\ \E i \in 1..Len(data_dir) :
            /\ data_dir[i].suffix \in Supported
            /\ ExtractError(data_dir[i]) = ""
            /\ ~IsBlank(data_dir[i].text) )
    => ( /\ out.err = ""
         /\ ~ArtifactMissing
         /\ \A i \in 1..Len(data_dir) :
               ( /\ data_dir[i].suffix \in Supported
                 /\ ExtractError(data_dir[i]) = ""
                 /\ ~IsBlank(data_dir[i].text) )
               => \E j \in 1..Len(metadata_file.items) :
                     json_load(metadata_file)[j].source = data_dir[i].name )

\* C6 as stated: a search attempted while either artifact is absent fails
\* with the missing-index error, whatever the query.
C6_AnySearchFailsMissingIndex ==
    (SearchDone /\ ArtifactMissing) => out.err = MissingIndexError

\* C6, amended: a search with a non-blank query attempted before any
\* successful build, or after either artifact has been deleted, fails with
\* the missing-index error (FileNotFoundError), whichever single artifact is
\* absent; and the artifacts come back only by a build that completes, so
\* every such search keeps failing that way until then.
C6_MissingIndexUntilBuild ==
    /\ []((SearchDone /\ ~IsBlank(out.query) /\ ArtifactMissing)
             => (out.err = MissingIndexError /\ out.results = <<>>))
    /\ [][(ArtifactMissing /\ ~ArtifactMissing') =>
             (out'.op = "ingest" /\ out'.err = "")]_vars

\* a search with a query of words failed for the metadata file alone, deleted
\* after a build
C6_Witness ==
    /\ SearchDone
    /\ ~IsBlank(out.query)
    /\ built.chunks # <<>>
    /\ index_file.exists
    /\ ~metadata_file.exists
    /\ out.err = MissingIndexError

\* C7: search keeps no index state across calls and a build replaces the
\* whole index: a search made after the latest build completed returns only
\* chunks of that build, never a chunk that only an earlier build held, and
\* what a completed build leaves persisted is its own chunks and vectors.
C7_OnlyLatestBuild ==
    /\ SearchReturned =>
          \A j \in 1..Len(out.results) :
             \E i \in 1..Len(built.chunks) :
                /\ built.chunks[i].id = out.results[j].id
                /\ built.chunks[i].text = out.results[j].text
                /\ built.chunks[i].source = out.results[j].source
    /\ BuildCompleted =>
          /\ json_load(metadata_file) = built.chunks
          /\ read_index(index_file) = built.index

\* a search returned results after a build that overwrote an index holding a
\* chunk the build did not have
C7_Witness ==
    /\ SearchReturned
    /\ out.results # <<>>
    /\ built.replaced
    /\ out.top_k >= Len(built.chunks)

\* C8: top-k clamping.  Against the aligned index of ntotal vectors a
\* search with k > ntotal returns exactly ntotal results and does not raise
\* (the query is embedded and of the index's dimension); in general a search
\* returns at most min(k, ntotal) results.
C8_TopKClamping ==
    /\ ( /\ QueryEmbedded
         /\ ~ArtifactMissing
         /\ QueryDim = index_file.d
         /\ out.top_k > index_file.ntotal )
       => (out.err = "" /\ Len(out.results) = index_file.ntotal)
    /\ SearchReturned =>
          Len(out.results) <= Min2(out.top_k, index_file.ntotal)

\* a search asked for more results than the index of several vectors holds
C8_Witness ==
    /\ SearchReturned
    /\ index_file.ntotal >= 2
    /\ out.top_k > index_file.ntotal
    /\ Len(out.results) = index_file.ntotal

C10_DimensionMismatch ==
    ( /\ QueryEmbedded
      /\ ~ArtifactMissing
      /\ QueryDim # index_file.d )
    => ( /\ out.err = DimensionMismatchError
         /\ ~out.lookup
         /\ out.hits = <<>>
         /\ out.results = <<>> )

\* the index was built under one model and searched under a model of
\* another dimension
C10_Witness ==
    /\ QueryEmbedded
    /\ ~ArtifactMissing
    /\ built.model # model.name
    /\ QueryDim # index_file.d
    /\ out.err = DimensionMismatchError

-----------------------------------------------------------------------------
(* Properties of ingest and of search's argument check (checked under Spec) *)

\* the exception class of an error message
ErrorType(err) ==
    CASE err = "" -> ""
      [] err \in {"FileNotFoundError: Data directory not found", MissingIndexError}
            -> "FileNotFoundError"
      [] err = "RuntimeError: No documents found to ingest." -> "RuntimeError"
      [] err = "PdfReadError" -> "PdfReadError"
      [] OTHER -> "ValueError"

IsSupported(f) == f.suffix \in Supported

\* the directory was there, and no extractor raised
IngestRead ==
    /\ out.op = "ingest"
    /\ out.err # "FileNotFoundError: Data directory not found"
    /\ \A i \in 1..Len(data_dir) : ExtractError(data_dir[i]) = ""

\* no file of the directory yields text
NoExtractableText ==
    \A i \in 1..Len(data_dir) : IsSupported(data_dir[i]) => IsBlank(data_dir[i].text)

\* C11: an ingest in which no document yields extractable text (no
\* supported file at all, or every extracted text blank) fails, with the
\* same error type in both cases (the one raised for a directory with no
\* document), and persists nothing.
C11_EmptyDocumentSetError ==
    (IngestRead /\ NoExtractableText) =>
        /\ out.err # ""
        /\ ErrorType(out.err) =
              ErrorType(ingest(TRUE, <<>>, model, embedding_model).err)

\* C16: within one build the chunks of each document get the ids
\* <source>_<ordinal>, the ordinal starting at 0 for that document and
\* increasing by 1 in document order; a document whose text is blank gives
\* no chunk and takes no ordinal from the others.
RECURSIVE OrdinalsPerDocument(_, _)
OrdinalsPerDocument(chunks, docs) ==
    IF docs = <<>> THEN chunks = <<>>
    ELSE IF IsBlank(Head(docs).text) THEN OrdinalsPerDocument(chunks, Tail(docs))
    ELSE LET n == Len(split_text(Head(docs).text))
         IN /\ n >= 1
            /\ Len(chunks) >= n
            /\ \A i \in 1..n :
                  /\ chunks[i].id = <<Head(docs).source, i - 1>>
                  /\ chunks[i].source = Head(docs).source
            /\ OrdinalsPerDocument(SubSeq(chunks, n + 1, Len(chunks)), Tail(docs))

C16_ChunkOrdinals ==
    BuildCompleted =>
        /\ OrdinalsPerDocument(built.chunks, iter_documents(data_dir).docs)
        /\ OrdinalsPerDocument(json_load(metadata_file), iter_documents(data_dir).docs)

\* a build of a directory with a blank document and a document of several
\* chunks
C16_Witness ==
    /\ BuildCompleted
    /\ \E i \in 1..Len(data_dir) :
          IsSupported(data_dir[i]) /\ IsBlank(data_dir[i].text)
    /\ \E i \in 1..Len(built.chunks) : built.chunks[i].id[2] = 1

EmptyQueryError == "ValueError: Query cannot be empty"

\* C17: search fails with the blank-query error when the query is empty or
\* only whitespace, before it loads the index or calls the embedder: a blank
\* query against a missing index reports the blank-query error, and the
\* embedding model is not loaded by the call.
C17_BlankQueryFirst ==
    /\ []((SearchDone /\ IsBlank(out.query)) =>
             (out.err = EmptyQueryError /\ ~out.lookup /\ out.results = <<>>))
    /\ [][(out'.op = "search" /\ IsBlank(out'.query)) => model' = model]_vars

\* a whitespace query got the blank-query error with an artifact missing and
\* the model still not loaded
C17_Witness ==
    /\ SearchDone
    /\ out.query = <<"SP">>
    /\ ArtifactMissing
    /\ model = NoModel
    /\ Loadable(ModelName(embedding_model))
    /\ out.err = EmptyQueryError

-----------------------------------------------------------------------------
(* Properties of the parser cascade (checked under SpecQuiz).               *)

\* s is the text of one JSON object that has a "questions" key
IsQuizObject(s) ==
    /\ json_loads(s).ok
    /\ json_loads(s).v.t = "dict"
    /\ "questions" \in JKeys(json_loads(s).v)

\* what the fences of a response enclose: ```json, newline, ..., newline, ```
Fenced(content) == SubSeq(content, 3, Len(content) - 2)

\* the response is a JSON quiz object wrapped in code-fence markers
FencedQuiz(content) ==
    /\ Len(content) >= 5
    /\ SubSeq(content, 1, 2) = <<"FJ", "NL">>
    /\ SubSeq(content, Len(content) - 1, Len(content)) = <<"NL", "F">>
    /\ IsQuizObject(Fenced(content))

\* C18 as stated: a JSON quiz object wrapped in code-fence markers is
\* rejected by tier 1 and accepted by tier 2.
C18_FencedAcceptedByTier2 ==
    (ServiceAnswered /\ FencedQuiz(q_in.content)) =>
        (q_res.pc = "returned" /\ q_res.tier = 2)

\* C18, amended: a JSON quiz object wrapped in code-fence markers is
\* accepted by tier 1, whose {...} span leaves the fence markers out, and
\* the object is returned as parsed.
C18_FencedAcceptedByTier1 ==
    (ServiceAnswered /\ FencedQuiz(q_in.content)) =>
        /\ q_res.pc = "returned"
        /\ q_res.tier = 1
        /\ q_res.val = json_loads(Fenced(q_in.content)).v

\* a fenced quiz object was returned by tier 1
C18_Witness ==
    /\ ServiceAnswered
    /\ FencedQuiz(q_in.content)
    /\ q_res.tier = 1
    /\ IsQuiz(q_res.val)

\* the response starts with a JSON quiz object of n tokens, and a closing
\* brace comes somewhere in the text after it
ObjectThenBrace(content, n) ==
    /\ IsQuizObject(SubSeq(content, 1, n))
    /\ \E i \in (n + 1)..Len(content) : content[i] = "RB"

\* C19: tier 1 parses the first balanced {...} span: a response holding a
\* valid JSON object with a questions key, followed by text with a closing
\* brace in it, is accepted by tier 1 and the quiz returned is that first
\* object.
C19_FirstBalancedSpan ==
    ServiceAnswered =>
        \A n \in 1..Len(q_in.content) :
           ObjectThenBrace(q_in.content, n) =>
              /\ q_res.pc = "returned"
              /\ q_res.tier = 1
              /\ q_res.val = json_loads(SubSeq(q_in.content, 1, n)).v

\* the first tier, in the order 1, 2, 3, 4, whose own test accepts the text
FirstAccepting(content, num_questions) ==
    LET response_text == Strip(content)
        json_match == JsonMatch(response_text)
        direct == json_loads(json_match.group)
    IN IF json_match.found /\ direct.ok /\ InQuestions(direct.v).yes THEN 1
       ELSE IF CleanedJson(response_text).pc # "pass" THEN 2
       ELSE TextFallback(response_text, num_questions).tier

\* what that tier makes of the text
FirstAcceptingValue(content, num_questions) ==
    LET response_text == Strip(content)
    IN CASE FirstAccepting(content, num_questions) = 1
               -> json_loads(JsonMatch(response_text).group).v
         [] FirstAccepting(content, num_questions) = 2
               -> CleanedJson(response_text).val
         [] OTHER -> TextFallback(response_text, num_questions).val

\* C20: the cascade runs its tiers in the order 1, 2, 3, 4; each tier is
\* attempted whenever every earlier tier has failed to accept, and the
\* result is produced entirely by the first tier that accepts.
C20_FirstAcceptingTierWins ==
    (ServiceAnswered /\ q_res.pc = "returned") =>
        /\ q_res.tier = FirstAccepting(q_in.content, q_in.num_questions)
        /\ q_res.val = FirstAcceptingValue(q_in.content, q_in.num_questions)

-----------------------------------------------------------------------------
(* Properties of the completion calls (checked under SpecLLM).              *)

EmptyCompletionError == "ValueError: Empty response from Groq API"
ExternalServiceError == "ValueError: Groq API call failed"

TextCall == c_in.fn \in {"generate_answer", "summarize_document"}

\* the service answered the call without raising, and the call has ended
CompletionReceived == c_pc = "done" /\ c_response.kind \in {"no_choices", "content"}

\* C12: generate_answer and summarize_document fail with
\* EmptyCompletionError whenever the completion service returns no usable
\* text, a completion of whitespace only included; they never return an
\* empty string as an answer or summary.
C12_NoEmptyAnswer ==
    /\ (TextCall /\ CompletionReceived
          /\ (c_response.kind = "no_choices" \/ IsBlank(c_response.content)))
       => (c_res.pc = "raised" /\ c_res.err = EmptyCompletionError)
    /\ (TextCall /\ c_res.pc = "returned") => c_res.val.src # <<>>

\* C13: each generate_answer, summarize_document and generate_quiz call
\* invokes the completion service at most once; when that call fails, the
\* failure is the call's error at once, with no second invocation.
C13_AtMostOneInvocation ==
    /\ c_calls <= 1
    /\ c_pc \in {"start", "call"} => c_calls = 0
    /\ c_response.kind = "error" =>
          /\ c_pc = "done"
          /\ c_res.pc = "raised"
          /\ c_res.err = ExternalServiceError

\* the one invocation of a call failed and the call ended with that error
C13_Witness ==
    /\ c_calls = 1
    /\ c_response.kind = "error"
    /\ c_pc = "done"
    /\ c_res.err = ExternalServiceError

\* C15: for answer and summarize requests alike, the prompt embeds the
\* retrieved chunks in the order received from the retriever, each chunk
\* tagged with its source name.
C15_PromptContexts ==
    (TextCall /\ c_prompt # NoPrompt) =>
        /\ Len(c_prompt.context_block) = Len(c_in.contexts)
        /\ \A i \in 1..Len(c_in.contexts) :
              /\ c_prompt.context_block[i].text = c_in.contexts[i].text
              /\ c_prompt.context_block[i].source_tag = c_in.contexts[i].source

-----------------------------------------------------------------------------
(* Properties of the join of search (checked under SpecJoin).               *)

InMetadata(h) == h.idx >= 0 /\ h.idx < Len(fn_in.metadata)

\* the hits whose offset lies in [0, len(metadata)), in their order
KeptHits == SelectSeq(fn_in.hits, InMetadata)

\* C14: any offset the vector search returns outside [0, len(metadata)),
\* the negative "no result" offset included, is dropped from the result
\* list without raising; the remaining results keep their relative order,
\* and each is a copy of metadata[offset] with a score added (the metadata
\* list itself is left as it was).
C14_OutOfRangeDropped ==
    fn_out.done =>
        /\ Len(fn_out.results) = Len(KeptHits)
        /\ \A j \in 1..Len(KeptHits) :
              LET m == fn_in.metadata[KeptHits[j].idx + 1]
              IN fn_out.results[j] =
                    [id |-> m.id, text |-> m.text, source |-> m.source,
                     score |-> KeptHits[j].score]
        /\ fn_out.metadata = fn_in.metadata

\* a negative offset and an offset past the end were dropped, and results
\* that came after them were kept
C14_Witness ==
    /\ fn_out.done
    /\ Len(fn_in.hits) = 3
    /\ fn_in.hits[1].idx = -1
    /\ ~InMetadata(fn_in.hits[2])
    /\ fn_in.hits[2].idx > 0
    /\ InMetadata(fn_in.hits[3])
    /\ Len(fn_out.results) = 1

-----------------------------------------------------------------------------
(* Properties of the text fallbacks of the cascade (checked under           *)
(* SpecQuiz).                                                               *)

\* the question-like line groups of the response that tier 3 looks at: the
\* first num_questions matches of question_pattern
GroupsFound ==
    Prefix(QuestionMatches(Strip(q_in.content), 1), q_in.num_questions)

\* tiers 1 and 2 did not accept: the value comes from tier 3 or tier 4
TextTiers == ServiceAnswered /\ q_res.pc = "returned" /\ q_res.tier \in {3, 4}

\* q is the question tier 3 synthesizes for the group: the group's first
\* line, placeholder options A-D, correct "A", the generic explanation
IsPlaceholderFor(q, group) ==
    /\ q.t = "dict"
    /\ JKeys(q) = {"question", "options", "correct", "explanation"}
    /\ JGet(q, "question") =
          JText(FirstLine(Strip(group)), CharLen(FirstLine(Strip(group))), FALSE)
    /\ JGet(q, "options") = PlaceholderOptions
    /\ JGet(q, "correct") = JStr("A")
    /\ JGet(q, "explanation") = JStr("See source material for details.")

\* C21: when tiers 1 and 2 fail, tier 3 synthesizes one question for each
\* question-like line group found in the response, up to num_questions of
\* them, each with the extracted question text, placeholder options A-D,
\* correct "A" and a generic explanation, whether or not the group holds
\* recognisable option lines.
C21_OneQuestionPerGroup ==
    (TextTiers /\ GroupsFound # <<>>) =>
        /\ q_res.tier = 3
        /\ q_res.val.t = "dict"
        /\ JKeys(q_res.val) = {"questions"}
        /\ LET questions == JGet(q_res.val, "questions").items
           IN /\ Len(questions) = Len(GroupsFound)
              /\ \A i \in 1..Len(GroupsFound) :
                    IsPlaceholderFor(questions[i], GroupsFound[i])

\* the stripped completion, which the code calls response_text (rag.py 292)
ResponseText == Strip(q_in.content)

\* tiers 1-3 recovered no question: the value comes from tier 4
NothingRecovered == ServiceAnswered /\ q_res.pc = "returned" /\ q_res.tier = 4

\* the number of characters of a string value built from the response
TextLen(v) == v.chars + (IF v.dots THEN 3 ELSE 0)

\* C22: when tiers 1-3 recover no question, generate_quiz returns exactly
\* one question with options A, B, C, D, correct "A", and an explanation
\* that is the response text if it has at most 500 characters, otherwise its
\* first 500 characters followed by "..."; the explanation never exceeds 503
\* characters.
C22_SingleFallbackQuestion ==
    NothingRecovered =>
        /\ q_res.val.t = "dict"
        /\ JKeys(q_res.val) = {"questions"}
        /\ JGet(q_res.val, "questions").t = "list"
        /\ Len(JGet(q_res.val, "questions").items) = 1
        /\ LET q == JGet(q_res.val, "questions").items[1]
               explanation == JGet(q, "explanation")
           IN /\ IsQuizQuestion(q)
              /\ JGet(q, "correct") = JStr("A")
              /\ explanation.src = ResponseText
              /\ IF CharLen(ResponseText) <= 500
                 THEN explanation.chars = CharLen(ResponseText) /\ ~explanation.dots
                 ELSE explanation.chars = 500 /\ explanation.dots
              /\ TextLen(explanation) <= 503

\* tier 4 answered a response of more than 500 characters with 503 characters
C22_Witness ==
    /\ NothingRecovered
    /\ CharLen(ResponseText) > 500
    /\ TextLen(JGet(JGet(q_res.val, "questions").items[1], "explanation")) = 503

-----------------------------------------------------------------------------
(* Properties of the value generate_quiz returns (checked under SpecQuiz).  *)

QuizReturned == ServiceAnswered /\ q_res.pc = "returned"

\* v is a mapping with a "questions" key whose value is a sequence
HasQuestionList(v) ==
    /\ v.t = "dict"
    /\ "questions" \in JKeys(v)
    /\ JGet(v, "questions").t = "list"

\* C25: whichever tier accepts, the value generate_quiz returns is a mapping
\* that has a "questions" key whose value is a sequence; it never returns a
\* bare string, list or other JSON value parsed from the cleaned response
\* in tier 2.
C25_ReturnsQuestionMapping ==
    QuizReturned => HasQuestionList(q_res.val)

\* C26: the quiz returned by generate_quiz(contexts, num_questions, ...)
\* never holds more than num_questions questions, whichever tier of the
\* cascade produced it.
C26_AtMostNumQuestions ==
    (QuizReturned /\ HasQuestionList(q_res.val)) =>
        Len(JGet(q_res.val, "questions").items) <= q_in.num_questions

-----------------------------------------------------------------------------
(* Properties of the persisted artifacts (checked under Spec).              *)

\* C27: chunk ids are unique within one build: no two entries of the
\* persisted metadata list carry the same id, even when files in different
\* subdirectories share a file name.
C27_UniqueChunkIds ==
    metadata_file.exists =>
        \A i, j \in 1..Len(json_load(metadata_file)) :
           json_load(metadata_file)[i].id = json_load(metadata_file)[j].id => i = j

\* what search(query, top_k) gives the caller for the files and the
\* Embedder state given: its error, or its results
SearchGives(idx_file, meta_file, cached, configured, query, top_k) ==
    LET r == search(idx_file, meta_file, cached, configured, query, top_k)
    IN <<r.err, r.results>>

IngestFailed == out.op = "ingest" /\ out.err # ""

\* C28: an ingest that fails before persisting (data directory missing, no
\* documents found, no non-blank text, extraction or embedding error) leaves
\* both persisted artifacts unchanged, so a search after it returns what the
\* same search returned before it; and search itself never modifies either
\* artifact.
C28_FailuresAndSearchKeepArtifacts ==
    [][ /\ IngestFailed' =>
              /\ index_file' = index_file
              /\ metadata_file' = metadata_file
              /\ \A q \in Queries, k \in TopKValues :
                    SearchGives(index_file', metadata_file', model',
                                embedding_model', q, k)
                      = SearchGives(index_file, metadata_file, model,
                                    embedding_model, q, k)
        /\ out'.op = "search" =>
              /\ index_file' = index_file
              /\ metadata_file' = metadata_file ]_vars

\* an ingest failed on the embedding model while both artifacts of an
\* earlier build were in place
C28_Witness ==
    /\ IngestFailed
    /\ out.err = "ValueError: Local embedding model error"
    /\ index_file.exists
    /\ metadata_file.exists
    /\ Len(metadata_file.items) >= 2

-----------------------------------------------------------------------------
(* Properties of the chunker (checked under SpecSplit).                     *)

ParagraphBreak == <<"NL", "NL">>
SentenceBreak == <<"DOT", "SP">>
SingleNewline == <<"NL">>
Space == <<"SP">>

\* a _split_text call has been made on a text longer than chunk_size
LongPieceSplit == fn_out.done /\ CharLen(fn_in.text) > chunk_size

\* the call was made with separator sep in its list
Available(sep) == \E k \in 1..Len(fn_in.separators) : fn_in.separators[k] = sep

\* the text holds sentence breaks and single newlines, the call has both
\* separators left to try, and the paragraph break is used up or not there
BothBreaks ==
    /\ Contains(fn_in.text, SentenceBreak) /\ Available(SentenceBreak)
    /\ Contains(fn_in.text, SingleNewline) /\ Available(SingleNewline)
    /\ ~(Contains(fn_in.text, ParagraphBreak) /\ Available(ParagraphBreak))

\* the call took the first separator of `order` that occurs in the text,
\* among those it was called with
TriedInOrder(order) ==
    \A i \in 1..Len(order) :
       (/\ order[i] = fn_out.separator
        /\ Contains(fn_in.text, order[i])) =>
          \A j \in 1..(i - 1) :
             Available(order[j]) => ~Contains(fn_in.text, order[j])

\* the call cut the text at the separator `first` and left `second` for
\* the pieces
ResplitAt(first, second) ==
    /\ fn_out.separator = first
    /\ fn_out.splits = SplitWithRegex(fn_in.text, first)
    /\ \E k \in 1..Len(fn_out.new_separators) : fn_out.new_separators[k] = second

\* C24 as stated: the separators are tried in the order paragraph break,
\* sentence break, single newline, space: a piece longer than chunk_size
\* that holds both sentence breaks and single newlines is re-split at the
\* sentence breaks before single newlines are considered.
C24_SentenceBeforeNewline ==
    LongPieceSplit =>
        /\ TriedInOrder(<<ParagraphBreak, SentenceBreak, SingleNewline, Space>>)
        /\ BothBreaks => ResplitAt(SentenceBreak, SingleNewline)

\* C24, amended: the separators are tried in the order paragraph break,
\* single newline, sentence break, space: a piece longer than chunk_size
\* that holds both sentence breaks and single newlines is re-split at the
\* single newlines before sentence breaks are considered.
C24_NewlineBeforeSentence ==
    LongPieceSplit =>
        /\ TriedInOrder(<<ParagraphBreak, SingleNewline, SentenceBreak, Space>>)
        /\ BothBreaks => ResplitAt(SingleNewline, SentenceBreak)

\* a piece of a paragraph split, longer than chunk_size and holding both
\* kinds of break, was cut at its newline into a part that is split further
\* at the sentence break
C24_Witness ==
    /\ LongPieceSplit
    /\ BothBreaks
    /\ fn_in.separators # Separators
    /\ fn_out.separator = SingleNewline
    /\ \E i \in 1..Len(fn_out.splits) :
          /\ CharLen(fn_out.splits[i]) >= chunk_size
          /\ Contains(fn_out.splits[i], SentenceBreak)

-----------------------------------------------------------------------------
(* Properties of a search concurrent with a build (checked under SpecRace). *)

\* what a build of the storage directory `files` persists
BuildOf(files) == ingest(TRUE, files, NoModel, "nomic-embed-text").build

\* the vector store of one build together with the metadata list of
\* another
TornPair(index, metadata) ==
    \E f1, f2 \in RaceListings :
       /\ f1 # f2
       /\ index = BuildOf(f1).index
       /\ metadata = BuildOf(f2).chunks

\* the chunks whose embeddings the index holds
ChunksOfIndex(index) ==
    BuildOf(CHOOSE f \in RaceListings : BuildOf(f).index = index).chunks

\* a search with a non-blank query has ended on a torn pair
TornSearchDone ==
    /\ s_pc = "done"
    /\ out.op = "search"
    /\ TornPair(s_locals.index, s_locals.metadata)

\* C23: build is not atomic with respect to readers: save_index writes the
\* vector store first and the metadata second, and a search whose
\* load_index interleaves with it obtains the vector store of one build
\* together with the metadata list of a different build and then returns
\* results joined by offset across the two.
C23_TornReadReturnsResults ==
    /\ [](TornSearchDone /\ s_locals.top_k >= 1 =>
            /\ out.err = ""
            /\ out.hits =
                  faiss_search(s_locals.index,
                               ModelEncode("all-MiniLM-L6-v2", <<s_locals.query>>)[1],
                               Min2(s_locals.top_k, Ntotal(s_locals.index))).hits
            /\ out.results = JoinResults(out.hits, s_locals.metadata))
    /\ [][(b_pc = 1 /\ b_pc' = 2) =>
            /\ index_file' = write_index(b_locals.index)
            /\ metadata_file' = metadata_file]_vars

\* a search returned, for a vector of one build, the text of the chunk that
\* another build has at the same offset
C23_Witness ==
    /\ TornSearchDone
    /\ out.err = ""
    /\ \E j \in 1..Len(out.results) :
          \E h \in 1..Len(out.hits) :
             /\ out.hits[h].idx >= 0
             /\ out.hits[h].idx < Len(s_locals.metadata)
             /\ out.results[j].score = out.hits[h].score
             /\ out.results[j].text = s_locals.metadata[out.hits[h].idx + 1].text
             /\ out.results[j].text
                   # ChunksOfIndex(s_locals.index)[out.hits[h].idx + 1].text

====
